---- MODULE Spec2Model ----
(***************************************************************************)
(* A model of the camelsp preprocessing notebooks.                         *)
(*                                                                         *)
(*   scripts/preprocess_de2.ipynb  (Bayern): get_filename_mapping,         *)
(*       get_file_from_zip, extract_file and the batch loop                *)
(*   scripts/preprocess_de4.ipynb  (Brandenburg): parse_dirty_dataframe,   *)
(*       the in-memory collection loop and the save loop                   *)
(*                                                                         *)
(* Python functions are operators that return a record with a field        *)
(* `raised` ("none", or the name of the exception that leaves the          *)
(* function), the value returned and the warnings the notebook issues by   *)
(* warnings.warn, in call order (warnings pandas itself may issue are not  *)
(* part of it).  Texts are sequences of one-character strings so that      *)
(* str(), basename() and split('.') are computed.                          *)
(***************************************************************************)
EXTENDS Integers, Sequences, FiniteSets, TLC

VARIABLES
    pc,          \* position of the running cell / loop
    zip,         \* Bayern: the archive, a sequence of members in filelist order
    nr,          \* Bayern: the requested identifier (int or str)
    variable,    \* 'q' or 'w' as passed by the caller
    not_exists,  \* Bayern: the not_exists argument, "omitted" when not passed
    ret,         \* value of the last single call (a result record)
    it,          \* Bayern batch: how many provider ids the for loop has taken
    provider_id, \* Bayern batch: the loop variable provider_id
    q_df,        \* Bayern batch: q_df of the running iteration
    w_df,        \* Bayern batch: w_df of the running iteration
    saved,       \* calls made to bl.save_timeseries, in order
    warns,       \* warnings recorded by warnings.catch_warnings(record=True)
    printed,     \* Bayern batch: what print(provider_id) has written
    log,         \* what bl.save_warnings was called with (NoLog: not called)
    wa,          \* Brandenburg: warnings recorded while the sheets are parsed
    df,          \* Brandenburg: the sheet handed to parse_dirty_dataframe
    skip_data,   \* Brandenburg: the skip_data argument
    metadata,    \* Brandenburg: the list `metadata`
    data,        \* Brandenburg: the list `data`
    now,         \* the day the system clock shows, read by dateparser
    handles,     \* Bayern: the archive members that are open (not closed)
    filelist,    \* Nordrhein-Westfalen, Sachsen: the files in glob order
    meta_list,   \* Nordrhein-Westfalen, Sachsen: the list `meta`
    q_list,      \* Sachsen: the list `q`
    w_list,      \* Sachsen: the list `w`
    zips         \* Bayern read_meta: the archives 'Abfluesse.zip' and 'Wasserstaende.zip'

vars == <<pc, zip, nr, variable, not_exists, ret, it, provider_id, q_df, w_df,
          saved, warns, printed, log, wa, df, skip_data, metadata, data, now, handles,
          filelist, meta_list, q_list, w_list, zips>>

bayernCallVars == <<zip, nr, variable, not_exists, ret>>
batchVars == <<it, provider_id, q_df, w_df, printed, log>>
brandVars == <<wa, df, skip_data, metadata, data>>
listVars == <<filelist, meta_list, q_list, w_list, zips>>

(***************************************************************************)
(* Generic helpers                                                         *)
(***************************************************************************)
None == "None"

\* no archive is at hand
NoZips == [q |-> <<>>, w |-> <<>>]

Range(s) == {s[i] : i \in 1..Len(s)}

SeqsUpTo(S, n) == UNION {[1..k -> S] : k \in 0..n}

RECURSIVE SelectIdx(_, _, _)
\* the indices i (ascending) of s from position k on with s[i] = TRUE
SelectIdx(s, k, off) ==
    IF k > Len(s) THEN <<>>
    ELSE (IF s[k] THEN <<k - 1 + off>> ELSE <<>>) \o SelectIdx(s, k + 1, off)

RECURSIVE Filter(_, _, _)
\* the elements s[i], from position k on, whose keep[i] holds, in order
Filter(s, keep, k) ==
    IF k > Len(s) THEN <<>>
    ELSE (IF keep[k] THEN <<s[k]>> ELSE <<>>) \o Filter(s, keep, k + 1)

(***************************************************************************)
(* Texts: str(), os.path.basename, str.split('.')[0], str.lower            *)
(***************************************************************************)
Digits == <<"0", "1", "2", "3", "4", "5", "6", "7", "8", "9">>

RECURSIVE str(_)
\* str(n) of a non-negative int: its decimal digits
str(n) == IF n < 10 THEN <<Digits[n + 1]>> ELSE str(n \div 10) \o <<Digits[(n % 10) + 1]>>

RECURSIVE LastIndexOf(_, _, _)
LastIndexOf(t, c, k) ==
    IF k = 0 THEN 0 ELSE IF t[k] = c THEN k ELSE LastIndexOf(t, c, k - 1)

RECURSIVE FirstIndexOf(_, _, _)
FirstIndexOf(t, c, k) ==
    IF k > Len(t) THEN 0 ELSE IF t[k] = c THEN k ELSE FirstIndexOf(t, c, k + 1)

\* os.path.basename: what follows the last '/'
basename(t) == SubSeq(t, LastIndexOf(t, "/", Len(t)) + 1, Len(t))

\* t.split('.')[0]: what precedes the first '.'
split0(t) ==
    LET d == FirstIndexOf(t, ".", 1)
    IN IF d = 0 THEN t ELSE SubSeq(t, 1, d - 1)

\* variable.lower()
lower(v) == CASE v = "Q" -> "q" [] v = "W" -> "w" [] OTHER -> v

\* str(nr) of a request: the decimal text of an int, a str as it is
str_nr(r) == IF r.isint THEN str(r.n) ELSE r.s

IntNr(n) == [isint |-> TRUE, n |-> n, s |-> <<>>]
StrNr(t) == [isint |-> FALSE, n |-> 0, s |-> t]

(***************************************************************************)
(* Bayern: the archive index and get_file_from_zip                         *)
(***************************************************************************)
filenames(z) == [i \in 1..Len(z) |-> z[i].filename]

id_only(fn) == split0(basename(fn))

\* get_filename_mapping keeping the first member of a short id
get_filename_mapping_first(z) ==
    LET keys == {id_only(z[i].filename) : i \in 1..Len(z)}
        first(k) == CHOOSE i \in 1..Len(z) :
                      /\ id_only(z[i].filename) = k
                      /\ \A j \in 1..Len(z) : id_only(z[j].filename) = k => i <= j
    IN [k \in keys |-> z[first(k)].filename]

\* m[str(id_only)] = f.filename for f in z.filelist: a later member with the
\* same short id overwrites the earlier one
get_filename_mapping(z) ==
    LET keys == {id_only(z[i].filename) : i \in 1..Len(z)}
        last(k) == CHOOSE i \in 1..Len(z) :
                      /\ id_only(z[i].filename) = k
                      /\ \A j \in 1..Len(z) : id_only(z[j].filename) = k => j <= i
    IN [k \in keys |-> z[last(k)].filename]

\* the default of the not_exists parameter
not_exists_arg(a) == IF a = "omitted" THEN "raise" ELSE a

\* lines 130-135: the else branch builds a FileNotFoundError and drops it
search_file(fname, fmap) ==
    IF fname \in {fmap[k] : k \in DOMAIN fmap} THEN fname
    ELSE IF fname \in DOMAIN fmap THEN fmap[fname]
    ELSE fname

\* open_member without the not_exists == 'raise' branch
open_member_never_raises(fname, z, policy) ==
    IF fname \notin Range(filenames(z))
    THEN [raised |-> "none", file |-> None]
    ELSE [raised |-> "none", file |-> fname]

\* lines 138-147: returns the opened member (its filename) or None, or raises

open_member(fname, z, policy) ==
    IF fname \notin Range(filenames(z))
    THEN IF policy = "raise"
         THEN [raised |-> "FileNotFoundError", file |-> None]
         ELSE [raised |-> "none", file |-> None]
    ELSE [raised |-> "none", file |-> fname]

get_file_from_zip(r, z, a) ==
    LET fmap == get_filename_mapping(z)
        fname == search_file(str_nr(r), fmap)
    IN open_member(fname, z, not_exists_arg(a))

\* the lines of the member z.open(fname) reads
content(z, fname) ==
    LET i == CHOOSE i \in 1..Len(z) : z[i].filename = fname
    IN z[i].lines

(***************************************************************************)
(* Bayern: the text export and pandas.read_csv                             *)
(*                                                                         *)
(* A line of a member is [n, val, ts]: n space-separated fields, the text  *)
(* of the second field (the value) and the day its first field (the        *)
(* timestamp) names.  The exports are daily series, so the timestamp of    *)
(* a data line is its position in the data region.                         *)
(***************************************************************************)
HEADER_LINES == 8

HeaderLine == [n |-> 1, val |-> "hdr", ts |-> 0]

NaN == [nan |-> TRUE, tenths |-> 0]
Num(t) == [nan |-> FALSE, tenths |-> t]

\* the number a value text denotes, in tenths
Tenths(tok) == CASE tok = "5" -> 50 [] tok = "-5" -> -50 [] tok = "1,5" -> 15 [] OTHER -> 0

\* read_csv(decimal=','): the decimal comma is understood
read_decimal(tok) == Num(Tenths(tok))

\* Python's float(): a decimal comma is a ValueError
float_err(tok) == IF tok \in {"5", "-5"} THEN "none" ELSE "ValueError"

\* raw[8:], and what skiprows=8 leaves
drop_lines(lines, k) == SubSeq(lines, k + 1, Len(lines))

\* pd.read_csv(..., sep=' ', header=None): the column count is that of the
\* first line; a later line with more fields is a ParserError, a line with
\* fewer is padded with NaN; no line at all is an EmptyDataError
read_csv(lines) ==
    IF lines = <<>> THEN [err |-> "EmptyDataError", ncols |-> 0, rows |-> <<>>]
    ELSE IF \E i \in 1..Len(lines) : lines[i].n > lines[1].n
         THEN [err |-> "ParserError", ncols |-> 0, rows |-> <<>>]
         ELSE [err |-> "none", ncols |-> lines[1].n, rows |-> lines]

\* the cell of column `value` in a parsed row
value_cell(row) == IF row.n >= 2 THEN read_decimal(row.val) ELSE NaN

(***************************************************************************)
(* Bayern: extract_file                                                    *)
(***************************************************************************)
\* a frame is [none, columns, rows]; NoDf stands for None and for "no value"
NoDf == [none |-> TRUE, columns |-> <<>>, rows |-> <<>>]

Frame(cols, rows) == [none |-> FALSE, columns |-> cols, rows |-> rows]

\* pd.DataFrame(columns=['date', variable.lower(), 'flag'])
empty_frame(v) == Frame(<<"date", lower(v), "flag">>, <<>>)

Warning(r, cat, detail, info) ==
    [nr |-> r, category |-> cat, detail |-> detail, info |-> info]

\* line 164: the first line on which float(row.split(' ')[1]) fails, if any
faulty_error(rows) ==
    LET bad(i) == rows[i].n < 2 \/ float_err(rows[i].val) # "none"
    IN IF \E i \in 1..Len(rows) : bad(i)
       THEN LET f == CHOOSE i \in 1..Len(rows) : bad(i) /\ \A j \in 1..(i - 1) : ~bad(j)
            IN IF rows[f].n < 2 THEN "IndexError" ELSE "ValueError"
       ELSE "none"

\* line 164: faulty_rows
faulty_rows(rows) == [i \in 1..Len(rows) |-> Tenths(rows[i].val) < 0]

\* line 165: the rows that are not faulty
keep_rows(rows, faulty) == Filter(rows, [i \in 1..Len(rows) |-> ~faulty[i]], 1)

\* faulty_positions without the shift by the header lines
faulty_positions_unshifted(faulty) == SelectIdx(faulty, 1, 0)

\* line 173: [i + 8 for i, fault in enumerate(faulty_rows) if fault]
faulty_positions(faulty) == SelectIdx(faulty, 1, HEADER_LINES)

\* parse_data that leaves out the rows with a negative value
parse_data_drop_negative(raw, v) ==
    LET kept == keep_rows(raw.rows, faulty_rows(raw.rows))
    IN Frame(<<"date", lower(v), "flag">>,
             [i \in 1..Len(kept) |->
                 [date |-> kept[i].ts, value |-> value_cell(kept[i]), flag |-> None]])

\* lines 191-198: the frame that is returned
parse_data(raw, v) ==
    Frame(<<"date", lower(v), "flag">>,
          [i \in 1..Len(raw.rows) |->
              [date |-> raw.rows[i].ts, value |-> value_cell(raw.rows[i]), flag |-> None]])

\* rename_and_parse without the warning about three columns
rename_and_parse_silent(r, v, raw, w) ==
    IF raw.ncols = 3 \/ raw.ncols = 4
    THEN [raised |-> "none", df |-> parse_data(raw, v), warns |-> w]
    ELSE [raised |-> "ValueError", df |-> NoDf, warns |-> w]

\* lines 184-198: rename the headers and parse
rename_and_parse(r, v, raw, w) ==
    IF raw.ncols = 3
    THEN [raised |-> "none", df |-> parse_data(raw, v),
          warns |-> Append(w, Warning(r, "FormatError", "raw file has only 3 columns", <<>>))]
    ELSE IF raw.ncols # 4
         THEN [raised |-> "ValueError", df |-> NoDf, warns |-> w]
         ELSE [raised |-> "none", df |-> parse_data(raw, v), warns |-> w]

\* lines 160-177: the except ParserError branch
fallback(r, v, lines) ==
    LET rows == drop_lines(lines, HEADER_LINES)
        err == faulty_error(rows)
        faulty == faulty_rows(rows)
        again == read_csv(keep_rows(rows, faulty))
    IN IF err # "none"
       THEN [raised |-> err, df |-> NoDf, warns |-> <<>>]
       ELSE IF again.err = "none"
            THEN rename_and_parse(r, v, again,
                    <<Warning(r, "FormatError", "Faulty rows", faulty_positions(faulty))>>)
            ELSE rename_and_parse(r, v, [err |-> "none", ncols |-> 4, rows |-> <<>>],
                    <<Warning(r, "ParserError", "failed alltogether", <<>>)>>)

\* the member is damaged: reading it raises zipfile.BadZipFile
corrupt(z, fname) ==
    LET i == CHOOSE i \in 1..Len(z) : z[i].filename = fname
    IN "corrupt" \in DOMAIN z[i] /\ z[i].corrupt

extract_file(r, v, z, a) ==
    LET enc_content == get_file_from_zip(r, z, a)
    IN IF enc_content.raised # "none"
       THEN [raised |-> enc_content.raised, df |-> NoDf, warns |-> <<>>]
       ELSE IF enc_content.file = None
            THEN [raised |-> "none", df |-> empty_frame(v), warns |-> <<>>]
            ELSE IF corrupt(z, enc_content.file)
            THEN [raised |-> "BadZipFile", df |-> NoDf, warns |-> <<>>]
            ELSE LET lines == content(z, enc_content.file)
                     strict == read_csv(drop_lines(lines, HEADER_LINES))
                 IN CASE strict.err = "none" -> rename_and_parse(r, v, strict, <<>>)
                      [] strict.err = "ParserError" -> fallback(r, v, lines)
                      [] OTHER -> [raised |-> strict.err, df |-> NoDf, warns |-> <<>>]

\* lines 178-179: finally: enc_content.close() closes f however the try
\* statement was left
close_finally(f, raised) == {}

\* read_meta, line 246: f.close() is the statement after the read, and is
\* not reached when the read raises
close_after_read(f, raised) == IF raised = "none" THEN {} ELSE {f}

\* the members extract_file leaves open
extract_file_open(r, v, z, a) ==
    LET enc_content == get_file_from_zip(r, z, a)
    IN IF enc_content.raised # "none" \/ enc_content.file = None THEN {}
       ELSE close_finally(enc_content.file, extract_file(r, v, z, a).raised)

\* f.read().decode('latin1').splitlines()[5:7]
header_lines(lines) == SubSeq(lines, 6, IF Len(lines) < 7 THEN Len(lines) ELSE 7)

\* read_meta, lines 241-250: one pass of the inner loop for the station nr;
\* z is the archive 'Abfluesse.zip', which line 241 opens for q and for w
read_meta_file(r, z) ==
    LET f == get_file_from_zip(r, z, "return_none")
    IN IF f.raised # "none"
       THEN [raised |-> f.raised, tup |-> <<>>, open |-> {}]
       ELSE IF f.file = None
            THEN [raised |-> "none", tup |-> <<None, None>>, open |-> {}]
            ELSE IF corrupt(z, f.file)
            THEN [raised |-> "BadZipFile", tup |-> <<>>,
                  open |-> close_after_read(f.file, "BadZipFile")]
            ELSE LET tup == header_lines(content(z, f.file))
                 IN [raised |-> IF Len(tup) < 2 THEN "IndexError" ELSE "none",
                     tup |-> tup,
                     open |-> close_after_read(f.file, "none")]

(***************************************************************************)
(* Brandenburg: sheets and the pandas operations parse_dirty_dataframe     *)
(* uses.  A sheet is a sequence of rows of four cells (usecols=[0,1,2,3]); *)
(* a cell is a text or NA, the empty Excel cell.  A block is a frame with  *)
(* its column labels: [cols, rows].                                        *)
(***************************************************************************)
NA == "NaN"

VERIFIED == "geprueft"

isnull(c) == c = NA

all_null(row) == \A j \in 1..Len(row) : isnull(row[j])

\* df.iloc[lo:up, :] with the labels 0..3 of the sheet's columns
iloc_rows(sheet, lo, up) == [cols |-> <<0, 1, 2, 3>>, rows |-> SubSeq(sheet, lo + 1, up)]

\* block.iloc[:, :k]
iloc_cols(b, k) ==
    LET m == IF Len(b.cols) < k THEN Len(b.cols) ELSE k
    IN [cols |-> SubSeq(b.cols, 1, m),
        rows |-> [r \in 1..Len(b.rows) |-> SubSeq(b.rows[r], 1, m)]]

\* dropna(axis=1, how='all'): a column stays if one of its cells is not null
dropna_cols(b) ==
    LET keep == [j \in 1..Len(b.cols) |-> \E r \in 1..Len(b.rows) : ~isnull(b.rows[r][j])]
    IN [cols |-> Filter(b.cols, keep, 1),
        rows |-> [r \in 1..Len(b.rows) |-> Filter(b.rows[r], keep, 1)]]

\* dropna(axis=0, how='all'): a row stays if one of its cells is not null
dropna_rows(b) ==
    [cols |-> b.cols,
     rows |-> Filter(b.rows, [r \in 1..Len(b.rows) |-> ~all_null(b.rows[r])], 1)]

\* block.drop(block.index[0], axis=0)
drop_first(b) == [cols |-> b.cols, rows |-> Tail(b.rows)]

EmptyDict == [k \in {} |-> NA]

\* a dict built from keys[i] -> values[i]; the last of equal keys wins
dict_zip(keys, values) ==
    [k \in Range(keys) |->
        values[CHOOSE i \in 1..Len(keys) :
                  keys[i] = k /\ \A j \in 1..Len(keys) : keys[j] = k => j <= i]]

\* {**a, **b}
dict_merge(a, b) ==
    [k \in DOMAIN a \cup DOMAIN b |-> IF k \in DOMAIN b THEN b[k] ELSE a[k]]

\* f"Block #{i + 1}: ...": the text names the block, and neither a station
\* nor a category
BlockWarning(i, text) == [detail |-> text, info |-> <<i + 1>>]

\* str() of a cell
str_cell(c) == IF isnull(c) THEN "nan" ELSE c

\* a text that names a day relative to the current one ('today')
TODAY == "heute"

\* dateparser.parse: the date a text names (a relative date is resolved
\* against the system clock), None for any other text, a TypeError for what
\* is not a text
parse(c) ==
    IF isnull(c) THEN [err |-> "TypeError", date |-> None]
    ELSE IF c = "2020-01-01" THEN [err |-> "none", date |-> c]
    ELSE IF c = TODAY THEN [err |-> "none", date |-> <<"day", now>>]
    ELSE [err |-> "none", date |-> None]

\* Series.astype(float) on one cell
astype_float(c) ==
    IF isnull(c) THEN [err |-> "none", value |-> "nan"]
    ELSE IF c = "1.23" THEN [err |-> "none", value |-> c]
    ELSE [err |-> "ValueError", value |-> "nan"]

\* fl.lower(): the letter case is folded, the whitespace is kept
lower_only(c) ==
    CASE c \in {"geprueft", "Geprueft"} -> "geprueft"
      [] OTHER -> c

\* fl.strip().lower() == 'geprüft'
strip_lower(c) ==
    CASE c \in {"geprueft", "Geprueft", " geprueft "} -> "geprueft"
      [] OTHER -> c

flag_of(c) ==
    IF isnull(c) THEN [err |-> "AttributeError", flag |-> FALSE]
    ELSE [err |-> "none", flag |-> strip_lower(c) = VERIFIED]

\* the first error among the results errs[1..], "none" if there is none
RECURSIVE first_error(_, _)
first_error(errs, k) ==
    IF k > Len(errs) THEN "none"
    ELSE IF errs[k] # "none" THEN errs[k] ELSE first_error(errs, k + 1)

(***************************************************************************)
(* Brandenburg: parse_dirty_dataframe                                      *)
(***************************************************************************)
\* line 142: the positions of the rows that are empty
null_idx(sheet) == SelectIdx([r \in 1..Len(sheet) |-> all_null(sheet[r])], 1, 0)

\* block_ranges with zip(null_idx, null_idx + [len(df)]): the leading 0 forgotten
block_ranges_no_first(sheet) ==
    LET los == null_idx(sheet)
        ups == null_idx(sheet) \o <<Len(sheet)>>
    IN [i \in 1..Len(los) |-> <<los[i], ups[i]>>]

\* block_ranges that leaves the separator row out of the block it begins
block_ranges_skip_separator(sheet) ==
    LET los == <<0>> \o [k \in 1..Len(null_idx(sheet)) |-> null_idx(sheet)[k] + 1]
        ups == null_idx(sheet) \o <<Len(sheet)>>
    IN [i \in 1..Len(los) |-> <<los[i], ups[i]>>]

\* block_ranges that cuts the sheet at its first empty row only
block_ranges_first_separator(sheet) ==
    IF null_idx(sheet) = <<>> THEN << <<0, Len(sheet)>> >>
    ELSE << <<0, null_idx(sheet)[1]>>, <<null_idx(sheet)[1], Len(sheet)>> >>

\* line 152: zip([0] + null_idx, null_idx + [len(df)])
block_ranges(sheet) ==
    LET los == <<0>> \o null_idx(sheet)
        ups == null_idx(sheet) \o <<Len(sheet)>>
    IN [i \in 1..Len(los) |-> <<los[i], ups[i]>>]

\* data_block with the flag read from the third column of the block
data_block_third_column(st, block, v) ==
    LET b == dropna_cols(dropna_rows(block))
    IN IF b.rows = <<>>
       THEN [st EXCEPT !.raised = "IndexError"]
       ELSE LET body == drop_first(b).rows
                n == Len(body)
                dates == [r \in 1..n |-> parse(body[r][1])]
                values == [r \in 1..n |-> astype_float(body[r][2])]
                flags == [r \in 1..n |-> flag_of(body[r][3])]
                e1 == first_error([r \in 1..n |-> dates[r].err], 1)
                e2 == IF Len(b.cols) < 2 THEN "IndexError"
                      ELSE first_error([r \in 1..n |-> values[r].err], 1)
                e3 == IF Len(b.cols) < 3 THEN "IndexError"
                      ELSE first_error([r \in 1..n |-> flags[r].err], 1)
                e == IF e1 # "none" THEN e1 ELSE IF e2 # "none" THEN e2 ELSE e3
            IN IF e # "none"
               THEN [st EXCEPT !.raised = e]
               ELSE [st EXCEPT !.dat =
                        Frame(<<"date", lower(v), "flag">>,
                              [r \in 1..n |-> [date |-> dates[r].date,
                                               value |-> values[r].value,
                                               flag |-> flags[r].flag]])]

\* lines 163-175: the data block; st is the state of the loop
data_block(st, block, v) ==
    LET b == dropna_cols(dropna_rows(block))
    IN IF b.rows = <<>>
       THEN [st EXCEPT !.raised = "IndexError"]
       ELSE LET body == drop_first(b).rows
                n == Len(body)
                dates == [r \in 1..n |-> parse(body[r][1])]
                values == [r \in 1..n |-> astype_float(body[r][2])]
                flags == [r \in 1..n |-> flag_of(body[r][4])]
                e1 == first_error([r \in 1..n |-> dates[r].err], 1)
                e2 == IF Len(b.cols) < 2 THEN "IndexError"
                      ELSE first_error([r \in 1..n |-> values[r].err], 1)
                e3 == IF Len(b.cols) < 4 THEN "IndexError"
                      ELSE first_error([r \in 1..n |-> flags[r].err], 1)
                e == IF e1 # "none" THEN e1 ELSE IF e2 # "none" THEN e2 ELSE e3
            IN IF e # "none"
               THEN [st EXCEPT !.raised = e]
               ELSE [st EXCEPT !.dat =
                        Frame(<<"date", lower(v), "flag">>,
                              [r \in 1..n |-> [date |-> dates[r].date,
                                               value |-> values[r].value,
                                               flag |-> flags[r].flag]])]

\* lines 178-191: base data (i = 0) or location (i = 1)
keyvalue_block(st, block, i) ==
    LET b == dropna_rows(dropna_cols(iloc_cols(block, 2)))
    IN IF 0 \notin Range(b.cols)
       THEN [st EXCEPT !.raised = "KeyError"]
       ELSE IF Len(b.cols) < 2
            THEN [st EXCEPT !.warns = Append(@, BlockWarning(i, "did not yield the correct shape"))]
            ELSE LET keys == [r \in 1..Len(b.rows) |-> b.rows[r][1]]
                     d == dict_zip(keys, [r \in 1..Len(b.rows) |-> b.rows[r][2]])
                     w == st.warns
                 IN IF i = 0
                    THEN IF "ID" \in DOMAIN d
                         THEN [st EXCEPT !.ID = str_cell(d["ID"]), !.base = d, !.warns = w]
                         ELSE [st EXCEPT !.base = d,
                                         !.warns = Append(w, BlockWarning(i, "No ID found"))]
                    ELSE [st EXCEPT !.loc = d, !.warns = w]

\* lines 194-207: coordinates
coordinate_block(st, block, i) ==
    LET b == dropna_rows(dropna_cols(block))
    IN IF b.rows = <<>>
       THEN [st EXCEPT !.raised = "IndexError"]
       ELSE LET header == <<"CRS">> \o Tail(b.rows[1])
                records == drop_first(b).rows
                w == st.warns
            IN IF Len(records) > 0
               THEN [st EXCEPT !.co = dict_zip(header, records[1]), !.warns = w]
               ELSE [st EXCEPT !.warns = Append(w, BlockWarning(i, "did not yield the correct shape"))]

\* loop_body without the test of line 160: the data block is parsed
\* whether block 0 named an identifier or not
loop_body_no_id_test(st, sheet, v, skip, i, lo, up) ==
    LET block == iloc_rows(sheet, lo, up)
    IN IF i = 3 /\ ~skip
       THEN data_block(st, block, v)
       ELSE IF i = 0 \/ i = 1 THEN keyvalue_block(st, block, i)
       ELSE IF i = 2 THEN coordinate_block(st, block, i)
       ELSE st

\* loop_body that takes every block after the third for a data block
loop_body_late_data(st, sheet, v, skip, i, lo, up) ==
    LET block == iloc_rows(sheet, lo, up)
    IN IF i >= 3 /\ ~skip
       THEN IF st.ID = None THEN st ELSE data_block(st, block, v)
       ELSE IF i = 0 \/ i = 1 THEN keyvalue_block(st, block, i)
       ELSE IF i = 2 THEN coordinate_block(st, block, i)
       ELSE st

\* lines 152-207: one pass of the loop body for block i (0-based)
loop_body(st, sheet, v, skip, i, lo, up) ==
    LET block == iloc_rows(sheet, lo, up)
    IN IF i = 3 /\ ~skip
       THEN IF st.ID = None THEN st ELSE data_block(st, block, v)
       ELSE IF i = 0 \/ i = 1 THEN keyvalue_block(st, block, i)
       ELSE IF i = 2 THEN coordinate_block(st, block, i)
       ELSE st

RECURSIVE block_loop(_, _, _, _, _, _)
block_loop(st, sheet, v, skip, ranges, k) ==
    IF k > Len(ranges) \/ st.raised # "none" THEN st
    ELSE block_loop(loop_body(st, sheet, v, skip, k - 1, ranges[k][1], ranges[k][2]),
                    sheet, v, skip, ranges, k + 1)

\* lines 145-149
loop_start ==
    [raised |-> "none", ID |-> None, base |-> EmptyDict, loc |-> EmptyDict,
     co |-> EmptyDict, dat |-> NoDf, warns |-> <<>>]

\* merge_meta as {**co, **loc, **base}: the earlier block wins
merge_meta_first_wins(st) ==
    LET meta == dict_merge(dict_merge(st.co, st.loc), st.base)
    IN IF DOMAIN meta = {} THEN [none |-> TRUE, dict |-> EmptyDict]
       ELSE [none |-> FALSE, dict |-> meta]

\* lines 210-214: meta = {**base, **loc, **co}, None when it has no key
merge_meta(st) ==
    LET meta == dict_merge(dict_merge(st.base, st.loc), st.co)
    IN IF DOMAIN meta = {} THEN [none |-> TRUE, dict |-> EmptyDict]
       ELSE [none |-> FALSE, dict |-> meta]

NoMeta == [none |-> TRUE, dict |-> EmptyDict]

\* dropna hands the handlers the frame of the whole sheet, not a new one
dropna_shares == FALSE

\* lines 164, 179, 196: DataFrame.dropna returns a new frame; what a handler
\* writes to its block afterwards is written to that frame
dropna_copies == TRUE

\* line 199: block.iloc[0, 0] = 'CRS' on the block of the rows [lo, up)
write_crs(sheet, lo, up) ==
    LET R == {r \in (lo + 1)..up : ~all_null(sheet[r])}
        C == {j \in 1..4 : \E r \in (lo + 1)..up : ~isnull(sheet[r][j])}
        r0 == CHOOSE r \in R : \A q \in R : r <= q
        c0 == CHOOSE j \in C : \A q \in C : j <= q
    IN IF dropna_copies \/ R = {} THEN sheet
       ELSE [sheet EXCEPT ![r0][c0] = "CRS"]

\* the sheet df after the call: the handlers of blocks 0, 1 and 3 assign
\* no cell (lines 167-168 and 201 relabel and drop on the block object)
df_after(sheet, v, skip) ==
    LET ranges == block_ranges(sheet)
    IN IF Len(ranges) < 3 THEN sheet
       ELSE IF block_loop(loop_start, sheet, v, skip, SubSeq(ranges, 1, 2), 1).raised # "none"
            THEN sheet
            ELSE write_crs(sheet, ranges[3][1], ranges[3][2])

parse_dirty_dataframe(sheet, v, skip) ==
    LET st == block_loop(loop_start, sheet, v, skip, block_ranges(sheet), 1)
    IN IF st.raised # "none"
       THEN [raised |-> st.raised, meta |-> NoMeta, dat |-> NoDf, warns |-> st.warns]
       ELSE [raised |-> "none", meta |-> merge_meta(st), dat |-> st.dat, warns |-> st.warns]

(***************************************************************************)
(* Inputs of the single calls                                              *)
(***************************************************************************)
MaxMembers == 2
MaxNr == 12
MaxLines == 3

\* member names: "1.t", "d/1.t", "2.t", "1", "01.t", "12.t.t"
Names == { <<"1", ".", "t">>, <<"d", "/", "1", ".", "t">>, <<"2", ".", "t">>,
           <<"1">>, <<"0", "1", ".", "t">>, <<"1", "2", ".", "t", ".", "t">> }

Header == [i \in 1..HEADER_LINES |-> HeaderLine]

\* a member text: the header and the data lines, stamped with their position
FileOf(body) == Header \o [i \in 1..Len(body) |-> [n |-> body[i].n, val |-> body[i].val, ts |-> i - 1]]

FieldCounts == {1, 3, 4, 5}
ValueTexts == {"5", "-5", "1,5"}
LineKinds == {[n |-> 1, val |-> "none"]}
             \cup {[n |-> k, val |-> t] : k \in FieldCounts \ {1}, t \in ValueTexts}

Files == {FileOf(b) : b \in SeqsUpTo(LineKinds, MaxLines)}

SampleFile == FileOf(<<[n |-> 4, val |-> "5"]>>)

Archives ==
    {[i \in 1..Len(ns) |-> [filename |-> ns[i], lines |-> SampleFile]] :
        ns \in {t \in SeqsUpTo(Names, MaxMembers) :
                    \A i, j \in 1..Len(t) : i # j => t[i] # t[j]}}

Requests == {IntNr(n) : n \in 0..MaxNr}
            \cup {StrNr(t) : t \in Names \cup {id_only(f) : f \in Names} \cup {<<"9">>}}

Policies == {"omitted", "raise", "fill_nan"}

NoLog == <<"not called">>

Idle ==
    /\ it = 0 /\ provider_id = 0 /\ q_df = NoDf /\ w_df = NoDf /\ saved = <<>>
    /\ warns = <<>> /\ printed = <<>> /\ log = NoLog
    /\ wa = <<>> /\ df = <<>> /\ skip_data = FALSE /\ metadata = <<>> /\ data = <<>>

NoRet == [fn |-> "none", raised |-> "none", file |-> None, df |-> NoDf, warns |-> <<>>]

(***************************************************************************)
(* One call of get_file_from_zip or extract_file on an archive             *)
(***************************************************************************)
InitResolve ==
    /\ pc = "call"
    /\ zip \in Archives
    /\ nr \in Requests
    /\ variable = "q" /\ not_exists = "omitted" /\ ret = NoRet
    /\ now = 0 /\ handles = {}
    /\ filelist = <<>> /\ meta_list = <<>> /\ q_list = <<>> /\ w_list = <<>> /\ zips = NoZips
    /\ Idle

InitExtract ==
    /\ pc = "call"
    /\ zip \in {<<[filename |-> <<"1", ".", "t">>, lines |-> f]>> : f \in Files}
    /\ nr \in {IntNr(1), StrNr(<<"1", ".", "t">>)}
    /\ variable = "q" /\ not_exists = "omitted" /\ ret = NoRet
    /\ now = 0 /\ handles = {}
    /\ filelist = <<>> /\ meta_list = <<>> /\ q_list = <<>> /\ w_list = <<>> /\ zips = NoZips
    /\ Idle

CallGetFile ==
    /\ pc = "call"
    /\ \E a \in Policies :
         LET g == get_file_from_zip(nr, zip, a)
         IN /\ not_exists' = a
            /\ ret' = [fn |-> "get_file_from_zip", raised |-> g.raised, file |-> g.file,
                       df |-> NoDf, warns |-> <<>>]
            /\ handles' = handles \cup (IF g.file = None THEN {} ELSE {g.file})
    /\ pc' = "returned"
    /\ UNCHANGED <<listVars, now, zip, nr, variable, batchVars, saved, warns, brandVars>>

CallExtractFile ==
    /\ pc = "call"
    /\ \E a \in Policies, v \in {"q", "w"} :
         LET e == extract_file(nr, v, zip, a)
         IN /\ not_exists' = a
            /\ variable' = v
            /\ ret' = [fn |-> "extract_file", raised |-> e.raised, file |-> None,
                       df |-> e.df, warns |-> e.warns]
            /\ handles' = handles \cup extract_file_open(nr, v, zip, a)
    /\ pc' = "returned"
    /\ UNCHANGED <<listVars, now, zip, nr, batchVars, saved, warns, brandVars>>

NextResolve == CallGetFile \/ CallExtractFile

SpecResolve == InitResolve /\ [][NextResolve]_vars

NextExtract == CallExtractFile

SpecExtract == InitExtract /\ [][NextExtract]_vars

(***************************************************************************)
(* Bayern: the batch loop (with Bundesland('Bayern') as bl)                *)
(***************************************************************************)
NStations == 2

\* nuts_map.provider_id
nuts_map == [i \in 1..NStations |-> i]

Line(k, t) == [n |-> k, val |-> t]

\* members the two archives may hold for a station: a clean four-column
\* export, one the fallback repairs, one the fallback chokes on
BatchFiles == { FileOf(<<Line(4, "5")>>),
                FileOf(<<Line(3, "5"), Line(4, "-5")>>),
                FileOf(<<Line(4, "5"), Line(5, "1,5")>>) }

\* an archive as far as it concerns one station: its member, or none
StationZips(id) ==
    {<<>>} \cup {<<[filename |-> str(id) \o <<".", "t">>, lines |-> f]>> : f \in BatchFiles}

InitBayern ==
    /\ pc = "for"
    /\ it = 0 /\ provider_id = 0 /\ q_df = NoDf /\ w_df = NoDf
    /\ saved = <<>> /\ warns = <<>> /\ printed = <<>> /\ log = NoLog
    /\ zip = <<>> /\ nr = IntNr(0) /\ variable = "q" /\ not_exists = "omitted" /\ ret = NoRet
    /\ now = 0 /\ handles = {}
    /\ filelist = <<>> /\ meta_list = <<>> /\ q_list = <<>> /\ w_list = <<>> /\ zips = NoZips
    /\ wa = <<>> /\ df = <<>> /\ skip_data = FALSE /\ metadata = <<>> /\ data = <<>>

\* line 296: for provider_id in nuts_map.provider_id
ForNext ==
    /\ pc = "for" /\ it < NStations
    /\ it' = it + 1
    /\ provider_id' = nuts_map[it + 1]
    /\ pc' = "extract_q"
    /\ UNCHANGED <<listVars, handles, now, bayernCallVars, q_df, w_df, printed, log, saved, warns, brandVars>>

ForEnd ==
    /\ pc = "for" /\ it = NStations
    /\ pc' = "end"
    /\ UNCHANGED <<listVars, handles, now, bayernCallVars, batchVars, saved, warns, brandVars>>

\* an except clause that prints and goes on to the save statements
on_exception_save(p) == [printed |-> Append(printed, p), pc |-> "save_q"]

\* lines 301-303: except Exception: print(provider_id); break
on_exception(p) == [printed |-> Append(printed, p), pc |-> "end"]

\* line 299
ExtractQ ==
    /\ pc = "extract_q"
    /\ \E z \in StationZips(provider_id) :
         LET e == extract_file(IntNr(provider_id), "q", z, "fill_nan")
         IN /\ warns' = warns \o e.warns
            /\ handles' = handles \cup extract_file_open(IntNr(provider_id), "q", z, "fill_nan")
            /\ IF e.raised = "none"
               THEN /\ q_df' = e.df
                    /\ pc' = "extract_w"
                    /\ UNCHANGED printed
               ELSE /\ printed' = on_exception(provider_id).printed
                    /\ pc' = on_exception(provider_id).pc
                    /\ UNCHANGED q_df
    /\ UNCHANGED <<listVars, now, bayernCallVars, it, provider_id, w_df, log, saved, brandVars>>

\* line 300
ExtractW ==
    /\ pc = "extract_w"
    /\ \E z \in StationZips(provider_id) :
         LET e == extract_file(IntNr(provider_id), "w", z, "fill_nan")
         IN /\ warns' = warns \o e.warns
            /\ handles' = handles \cup extract_file_open(IntNr(provider_id), "w", z, "fill_nan")
            /\ IF e.raised = "none"
               THEN /\ w_df' = e.df
                    /\ pc' = "save_q"
                    /\ UNCHANGED printed
               ELSE /\ printed' = on_exception(provider_id).printed
                    /\ pc' = on_exception(provider_id).pc
                    /\ UNCHANGED w_df
    /\ UNCHANGED <<listVars, now, bayernCallVars, it, provider_id, q_df, log, saved, brandVars>>

\* line 306
SaveQ ==
    /\ pc = "save_q"
    /\ saved' = Append(saved, [provider_id |-> provider_id, df |-> q_df])
    /\ pc' = "save_w"
    /\ UNCHANGED <<listVars, handles, now, bayernCallVars, batchVars, warns, brandVars>>

\* line 307
SaveW ==
    /\ pc = "save_w"
    /\ saved' = Append(saved, [provider_id |-> provider_id, df |-> w_df])
    /\ pc' = "for"
    /\ UNCHANGED <<listVars, handles, now, bayernCallVars, batchVars, warns, brandVars>>

\* lines 310-312
SaveWarnings ==
    /\ pc = "end"
    /\ log' = IF Len(warns) > 0 THEN warns ELSE log
    /\ pc' = "done"
    /\ UNCHANGED <<listVars, handles, now, bayernCallVars, it, provider_id, q_df, w_df, printed, saved, warns, brandVars>>

NextBayern == ForNext \/ ForEnd \/ ExtractQ \/ ExtractW \/ SaveQ \/ SaveW \/ SaveWarnings

SpecBayern == InitBayern /\ [][NextBayern]_vars

SavedFor(id) == {k \in 1..Len(saved) : saved[k].provider_id = id}

\* C2: an error raised while extracting one station never aborts the batch:
\* when the batch has ended, every station that follows a station whose
\* extraction raised has had its extraction attempted, and was saved unless
\* its own extraction raised.
C2_BatchNeverAborted ==
    pc = "done"
    => \A i \in 1..NStations :
          (\E j \in 1..(i - 1) : nuts_map[j] \in Range(printed))
          => (nuts_map[i] \in Range(printed) \/ SavedFor(nuts_map[i]) # {})

\* the save calls for station id that were given a series of variable v
SavedSeries(id, v) ==
    {k \in SavedFor(id) : ~saved[k].df.none /\ saved[k].df.columns[2] = v}

\* C30: for every station the discharge series is saved if and only if the
\* water-level series is saved (outside the two save statements of the
\* station), the discharge save comes right before the water-level save,
\* and neither happens unless both extractions of the station returned
\* without raising.
C30_SavedInPairs ==
    \A i \in 1..NStations :
        LET id == nuts_map[i]
            qs == SavedSeries(id, "q")
            ws == SavedSeries(id, "w")
        IN /\ SavedFor(id) = qs \cup ws
           /\ Cardinality(qs) <= 1 /\ Cardinality(ws) <= 1
           /\ ~(pc = "save_w" /\ provider_id = id) => (qs # {} <=> ws # {})
           /\ \A k \in ws : (k - 1) \in qs
           /\ SavedFor(id) # {} =>
                 /\ ~(id \in Range(printed))
                 /\ it >= i
                 /\ (provider_id = id => (~q_df.none /\ ~w_df.none))

C30_Witness ==
    /\ pc = "done" /\ printed = <<nuts_map[2]>>
    /\ Len(saved) = 2
    /\ saved[1].provider_id = nuts_map[1] /\ saved[1].df.columns[2] = "q"
    /\ saved[2].provider_id = nuts_map[1] /\ saved[2].df.columns[2] = "w"

(***************************************************************************)
(* One call of parse_dirty_dataframe on a sheet                            *)
(***************************************************************************)
MaxRows == 6

EmptyRow == <<NA, NA, NA, NA>>
IdRow == <<"ID", "s1", NA, NA>>
ValueOnlyRow == <<NA, "x", NA, NA>>
DataRow == <<"2020-01-01", "1.23", "geprueft", "x">>

ParseRows == {EmptyRow, IdRow, ValueOnlyRow, DataRow}

InitParse ==
    /\ pc = "parse"
    /\ df \in SeqsUpTo(ParseRows, MaxRows)
    /\ skip_data = FALSE /\ variable = "q" /\ ret = NoRet
    /\ metadata = <<>> /\ data = <<>> /\ wa = <<>>
    /\ it = 0 /\ provider_id = 0 /\ q_df = NoDf /\ w_df = NoDf
    /\ saved = <<>> /\ warns = <<>> /\ printed = <<>> /\ log = NoLog
    /\ zip = <<>> /\ nr = IntNr(0) /\ not_exists = "omitted"
    /\ now = 0 /\ handles = {}
    /\ filelist = <<>> /\ meta_list = <<>> /\ q_list = <<>> /\ w_list = <<>> /\ zips = NoZips

\* line 221: parse_dirty_dataframe(df, 'q', skip_data=False), with either
\* variable and either value of skip_data
CallParse ==
    /\ pc = "parse"
    /\ \E v \in {"q", "w"}, skip \in BOOLEAN :
         LET r == parse_dirty_dataframe(df, v, skip)
         IN /\ variable' = v
            /\ skip_data' = skip
            /\ ret' = [fn |-> "parse_dirty_dataframe", raised |-> r.raised,
                       blocks |-> block_ranges(df), sheet |-> df,
                       meta |-> r.meta, dat |-> r.dat, warns |-> r.warns]
            /\ df' = df_after(df, v, skip)
    /\ pc' = "parsed"
    /\ UNCHANGED <<listVars, handles, now, zip, nr, not_exists, batchVars, saved, warns, wa, metadata, data>>

NextParse == CallParse

SpecParse == InitParse /\ [][NextParse]_vars

\* the ranges the block loop of the last call went through
Parsed == pc = "parsed" /\ ret.fn = "parse_dirty_dataframe"

\* C1: parse_dirty_dataframe returns for every sheet and never raises: an
\* empty sheet, an empty block at ordinal 0, 1 or 2, an empty key column or
\* a data block with fewer than four columns give at most a diagnostic.
C1_ParseNeverRaises == Parsed => ret.raised = "none"

\* C9: for a sheet with zero rows the block loop runs zero times: the
\* splitter yields no block.
C9_EmptySheetNoBlock == (Parsed /\ df = <<>>) => ret.blocks = <<>>

\* C10: for a sheet without a fully-empty row the splitter yields exactly
\* one block, the range [0, number of rows).
C10_OneBlockWithoutEmptyRow ==
    (Parsed /\ \A r \in 1..Len(df) : df[r] # EmptyRow)
    => ret.blocks = << <<0, Len(df)>> >>

C10_Witness ==
    /\ Parsed /\ Len(df) >= 3
    /\ \A r \in 1..Len(df) : df[r] # EmptyRow
    /\ ret.blocks = << <<0, Len(df)>> >>

\* the rows of df (1-based) in the range [lo, up) of a block
BlockRows(b) == (b[1] + 1)..b[2]

SeparatorRows == {r \in 1..Len(df) : df[r] = EmptyRow}

RECURSIVE RowCount(_, _)
RowCount(blocks, k) ==
    IF k > Len(blocks) THEN 0
    ELSE Cardinality(BlockRows(blocks[k])) + RowCount(blocks, k + 1)

\* the ranges come in ascending order and no two of them share a row
AscendingDisjoint(blocks) ==
    /\ \A k \in 1..Len(blocks) : blocks[k][1] <= blocks[k][2]
    /\ \A j, k \in 1..Len(blocks) : j < k => blocks[j][2] <= blocks[k][1]

\* C11 (as claimed): the row ranges of the blocks are ascending and pairwise
\* disjoint, and the rows of all blocks plus the fully-empty rows add up to
\* the rows of the sheet.
C11_RowsPlusSeparators ==
    Parsed => /\ AscendingDisjoint(ret.blocks)
              /\ RowCount(ret.blocks, 1) + Cardinality(SeparatorRows) = Len(df)

\* C11 (amended): the row ranges of the blocks are ascending and pairwise
\* disjoint and every row of the sheet, the fully-empty rows included, lies
\* in exactly one block: the rows of all blocks add up to the rows of the
\* sheet.
C11_BlocksCoverSheet ==
    Parsed => /\ AscendingDisjoint(ret.blocks)
              /\ RowCount(ret.blocks, 1) = Len(df)
              /\ \A r \in 1..Len(df) : \E k \in 1..Len(ret.blocks) : r \in BlockRows(ret.blocks[k])

C11_Witness ==
    /\ Parsed /\ Cardinality(SeparatorRows) >= 2 /\ Len(ret.blocks) >= 3
    /\ \E r \in SeparatorRows : r > 1 /\ r + 1 \in SeparatorRows
    /\ RowCount(ret.blocks, 1) = Len(df)

\* the rows that begin a maximal run of rows that are not empty
RunStarts ==
    {r \in 1..Len(df) : df[r] # EmptyRow /\ (r = 1 \/ df[r - 1] = EmptyRow)}

\* C23: the number of blocks equals the number of maximal runs of
\* consecutive non-empty rows, and the k-th run is the content of the k-th
\* block: leading, trailing or adjacent empty rows create no empty block.
C23_BlocksAreRuns ==
    Parsed => /\ Len(ret.blocks) = Cardinality(RunStarts)
              /\ \A k \in 1..Len(ret.blocks) :
                    \E r \in RunStarts :
                       /\ Cardinality({q \in RunStarts : q <= r}) = k
                       /\ r \in BlockRows(ret.blocks[k])

\* C12 (as claimed): no block range contains a fully-empty row.
C12_NoSeparatorInBlock ==
    Parsed => \A k \in 1..Len(ret.blocks) : BlockRows(ret.blocks[k]) \cap SeparatorRows = {}

\* C12 (amended): the first block contains no fully-empty row, and every
\* later block contains exactly one, the separator it begins with, as its
\* first row.
C12_SeparatorOnlyFirstRow ==
    Parsed => \A k \in 1..Len(ret.blocks) :
                 BlockRows(ret.blocks[k]) \cap SeparatorRows =
                     IF k = 1 THEN {} ELSE {ret.blocks[k][1] + 1}

C12_Witness ==
    /\ Parsed /\ Len(ret.blocks) >= 3
    /\ \E k \in 2..Len(ret.blocks) :
          /\ Cardinality(BlockRows(ret.blocks[k])) >= 2
          /\ BlockRows(ret.blocks[k]) \cap SeparatorRows = {ret.blocks[k][1] + 1}

(***************************************************************************)
(* Brandenburg: the collection loop and the save loop                      *)
(***************************************************************************)
MaxSheets == 2

NumberRow == <<"Messstellennummer", "s1", NA, NA>>
NameRow == <<"Name", "n1", NA, NA>>
KeyOnlyRow == <<"Name", NA, NA, NA>>
CoordinateHeader == <<"EPSG", "East", "North", NA>>
CoordinateRow == <<"25833", "e1", "n1", NA>>
DataHeader == <<"Datum", "Wert", "Status", "Freigabe">>

Id2Row == <<"ID", "s2", NA, NA>>
Number2Row == <<"Messstellennummer", "s2", NA, NA>>
LateRow == <<"2020-01-02", "4.56", "x", "geprueft">>

\* a sheet as the exports have it: base data, location, coordinates, data
FullSheet == <<IdRow, NumberRow, EmptyRow, NameRow, EmptyRow,
               CoordinateHeader, CoordinateRow, EmptyRow, DataHeader, DataRow>>

\* the same without the ID row, and without the Messstellennummer row
NoIdSheet == Tail(FullSheet)
NoNumberSheet == <<IdRow>> \o Tail(Tail(FullSheet))

\* the sheet of a second station
SecondSheet == <<Id2Row, Number2Row, EmptyRow, NameRow, EmptyRow,
                 CoordinateHeader, CoordinateRow, EmptyRow, DataHeader, LateRow>>

BookSheets == {FullSheet, SecondSheet, NoIdSheet, NoNumberSheet, <<NameRow>>, <<KeyOnlyRow>>, <<>>}

InitBrandenburg ==
    /\ pc = "collect"
    /\ metadata = <<>> /\ data = <<>> /\ warns = <<>> /\ wa = <<>>
    /\ df = <<>> /\ skip_data = FALSE /\ variable = "q" /\ ret = NoRet
    /\ it = 0 /\ provider_id = 0 /\ q_df = NoDf /\ w_df = NoDf
    /\ saved = <<>> /\ printed = <<>> /\ log = NoLog
    /\ zip = <<>> /\ nr = IntNr(0) /\ not_exists = "omitted"
    /\ now = 0 /\ handles = {}
    /\ filelist = <<>> /\ meta_list = <<>> /\ q_list = <<>> /\ w_list = <<>> /\ zips = NoZips

\* lines 245-256: one sheet of one of the four workbooks
CollectSheet ==
    /\ pc = "collect" /\ it < MaxSheets
    /\ \E v \in {"q", "w"}, sheet \in BookSheets :
         LET r == parse_dirty_dataframe(sheet, v, FALSE)
         IN /\ variable' = v
            /\ df' = sheet
            /\ wa' = wa \o r.warns
            /\ IF r.raised # "none"
               THEN /\ pc' = "crashed"
                    /\ UNCHANGED <<metadata, data>>
               ELSE /\ pc' = "collect"
                    /\ IF ~r.meta.none
                       THEN /\ metadata' = Append(metadata, r.meta.dict)
                            /\ data' = Append(data, r.dat)
                       ELSE UNCHANGED <<metadata, data>>
    /\ it' = it + 1
    /\ UNCHANGED <<listVars, handles, now, zip, nr, not_exists, ret, provider_id, q_df, w_df, printed, log,
                   saved, warns, skip_data>>

\* line 259: warns.extend(wa), after the last sheet
CollectEnd ==
    /\ pc = "collect"
    /\ warns' = warns \o wa
    /\ it' = 0
    /\ pc' = "save"
    /\ UNCHANGED <<listVars, handles, now, bayernCallVars, provider_id, q_df, w_df, printed, log, saved, brandVars>>

\* lines 360-365: for station_meta, station_data in zip(metadata, data)
SaveStation ==
    /\ pc = "save" /\ it < Len(metadata) /\ it < Len(data)
    /\ LET station_meta == metadata[it + 1]
           station_data == data[it + 1]
       IN IF "Messstellennummer" \in DOMAIN station_meta
          THEN /\ provider_id' = station_meta["Messstellennummer"]
               /\ saved' = Append(saved, [provider_id |-> station_meta["Messstellennummer"],
                                          df |-> station_data])
               /\ it' = it + 1
               /\ pc' = "save"
          ELSE /\ pc' = "crashed"
               /\ UNCHANGED <<provider_id, saved, it>>
    /\ UNCHANGED <<listVars, handles, now, bayernCallVars, q_df, w_df, printed, log, warns, brandVars>>

\* lines 368-370
SaveEnd ==
    /\ pc = "save" /\ (it = Len(metadata) \/ it = Len(data))
    /\ log' = IF Len(warns) > 0 THEN warns ELSE log
    /\ pc' = "done"
    /\ UNCHANGED <<listVars, handles, now, bayernCallVars, it, provider_id, q_df, w_df, printed, saved, warns, brandVars>>

NextBrandenburg == CollectSheet \/ CollectEnd \/ SaveStation \/ SaveEnd

SpecBrandenburg == InitBrandenburg /\ [][NextBrandenburg]_vars

\* C6: every value handed to save_timeseries is a table with exactly the
\* columns date, q or w, flag, in that order.
C6_SavedTablesHaveSchema ==
    \A k \in 1..Len(saved) :
        /\ ~saved[k].df.none
        /\ saved[k].df.columns \in {<<"date", "q", "flag">>, <<"date", "w", "flag">>}

\* the save loop ended on an exception
SaveLoopStopped == pc = "crashed" /\ it = Len(saved)

\* C17: a sheet whose identity block has no key 'ID' still contributes its
\* metadata record to the collected metadata, but the save loop makes no
\* save_timeseries call for such a record, and the record does not stop
\* the save loop.
C17_NoIdNeverSaved ==
    /\ (pc = "collect" /\ it >= 1 /\ df = NoIdSheet)
       => (Len(metadata) >= 1 /\ "ID" \notin DOMAIN metadata[Len(metadata)])
    /\ \A k \in 1..Len(saved) : "ID" \in DOMAIN metadata[k]
    /\ SaveLoopStopped => "ID" \in DOMAIN metadata[it + 1]

\* the category tags a diagnostic text may carry after the identifier
CategoryTags == {"FormatError", "ParserError", "MissingIdentifier", "AmbiguousShape"}

\* the diagnostic names its station or file, a category tag and a detail
Structured(w) ==
    /\ {"nr", "category", "detail"} \subseteq DOMAIN w
    /\ w.category \in CategoryTags /\ w.detail # ""

Recorded == Range(wa) \cup Range(warns) \cup (IF log = NoLog THEN {} ELSE Range(log))

\* C19: every diagnostic recorded during a batch run carries the identifier
\* of the station or file it concerns, a category tag and a free-text
\* detail.
C19_DiagnosticsStructured == \A w \in Recorded : Structured(w)

(***************************************************************************)
(* One call of parse_dirty_dataframe on a sheet laid out in blocks         *)
(***************************************************************************)
IdNaRow == <<"ID", NA, NA, NA>>
CoordinateIdHeader == <<"EPSG", "ID", "Name", NA>>
VerifiedRow == <<"2020-01-01", "1.23", "x", "geprueft">>
BadDateRow == <<"x", "1.23", "x", "geprueft">>
BadValueRow == <<"2020-01-01", "x", "x", "geprueft">>
CaseRow == <<"2020-01-01", "1.23", "x", "Geprueft">>
SpaceRow == <<"2020-01-01", "1.23", "x", " geprueft ">>
NoFlagRow == <<"2020-01-01", "1.23", "x", NA>>
ShortHeader == <<"Datum", "Wert", "Status", NA>>
ShortRow == <<"2020-01-01", "1.23", "geprueft", NA>>

\* the rows between two separators, by the place of the block in the sheet
Block0s == { <<IdRow, NumberRow>>, <<NumberRow>>, <<IdRow>>, <<KeyOnlyRow>>,
             <<ValueOnlyRow>>, <<>>, <<IdRow, Id2Row>>, <<IdNaRow, NumberRow>> }
Block1s == { <<NameRow>>, <<>>, <<KeyOnlyRow>>, <<Id2Row>> }
Block2s == { <<CoordinateHeader, CoordinateRow>>, <<CoordinateHeader>>, <<>>,
             <<CoordinateIdHeader, CoordinateRow>> }
Block3s == { <<DataHeader, DataRow>>, <<DataHeader, VerifiedRow>>,
             <<DataHeader, VerifiedRow, DataRow>>, <<DataHeader>>,
             <<ShortHeader, ShortRow>>, <<DataHeader, BadDateRow>>,
             <<DataHeader, BadValueRow>>, <<>>,
             <<DataHeader, VerifiedRow, BadValueRow>>,
             <<DataHeader, BadDateRow, VerifiedRow>>,
             <<DataHeader, CaseRow, SpaceRow>>,
             <<DataHeader, SpaceRow>>,
             <<DataHeader, VerifiedRow, NoFlagRow>> }

\* sheets of three blocks, and of four
Sheets ==
    { b0 \o <<EmptyRow>> \o b1 \o <<EmptyRow>> \o b2 \o t :
        b0 \in Block0s, b1 \in Block1s, b2 \in Block2s,
        t \in {<<>>} \cup {<<EmptyRow>> \o b3 : b3 \in Block3s} }

InitSheet ==
    /\ pc = "parse"
    /\ df \in Sheets
    /\ skip_data = FALSE /\ variable = "q" /\ ret = NoRet
    /\ metadata = <<>> /\ data = <<>> /\ wa = <<>>
    /\ it = 0 /\ provider_id = 0 /\ q_df = NoDf /\ w_df = NoDf
    /\ saved = <<>> /\ warns = <<>> /\ printed = <<>> /\ log = NoLog
    /\ zip = <<>> /\ nr = IntNr(0) /\ not_exists = "omitted"
    /\ now = 0 /\ handles = {}
    /\ filelist = <<>> /\ meta_list = <<>> /\ q_list = <<>> /\ w_list = <<>> /\ zips = NoZips

SpecSheet == InitSheet /\ [][NextParse]_vars

\* block k (0-based) of the sheet of the last call, as the loop cuts it
BlockOf(k) == iloc_rows(df, ret.blocks[k + 1][1], ret.blocks[k + 1][2]).rows

\* the rows of block k that are not empty
Content(k) == Filter(BlockOf(k), [r \in 1..Len(BlockOf(k)) |-> BlockOf(k)[r] # EmptyRow], 1)

\* the value of the last row of block 0 with the key 'ID'
IdRows == {r \in 1..Len(Content(0)) : Content(0)[r][1] = "ID"}

IdValue == Content(0)[CHOOSE r \in IdRows : \A q \in IdRows : q <= r][2]

\* block 1 or block 2 defines the key k
LaterDefines(k) ==
    \/ \E r \in 1..Len(Content(1)) : Content(1)[r][1] = k
    \/ Len(Content(2)) >= 2 /\ k \in Range(Tail(Content(2)[1]))

\* C13: for every sheet of four blocks whose block 0 is a key/value list
\* with the key 'ID' and the value v, parse_dirty_dataframe returns a
\* metadata record with the key 'ID', whose value is v unless a later block
\* defines the same key.
C13_IdInMetadata ==
    (Parsed /\ Len(ret.blocks) = 4 /\ IdRows # {})
    => /\ ret.raised = "none"
       /\ ~ret.meta.none
       /\ "ID" \in DOMAIN ret.meta.dict
       /\ (LaterDefines("ID") \/ ret.meta.dict["ID"] = IdValue)

\* block k has a key in its first column
HasKeys(k) == \E r \in 1..Len(Content(k)) : ~isnull(Content(k)[r][1])

\* the three blocks before the data block are not empty
HeadParses == HasKeys(0) /\ HasKeys(1) /\ Content(2) # <<>>

\* the sheet has four blocks, block 0 names an identifier and the data block
\* is a header row followed by the one row `row`
OneRowSheet(row) ==
    /\ Parsed /\ ~skip_data /\ Len(ret.blocks) = 4
    /\ IdRows # {} /\ HeadParses
    /\ Content(3) = <<DataHeader, row>>

\* C14 (as claimed): for a data block with a header row and the single row
\* (2020-01-01, 1.23, geprueft, x), with an identifier resolved in block 0,
\* parse_dirty_dataframe returns exactly one observation, whose flag is true.
C14_FlagTrue ==
    OneRowSheet(DataRow)
    => /\ ret.raised = "none" /\ ~ret.dat.none
       /\ Len(ret.dat.rows) = 1
       /\ ret.dat.rows[1].flag = TRUE

\* C14 (amended): for a data block with a header row and a single data row,
\* with an identifier resolved in block 0, parse_dirty_dataframe returns
\* exactly one observation with the date and the value of the row, and its
\* flag tells whether the fourth cell of the row is the verified marker:
\* false for (2020-01-01, 1.23, geprueft, x), true for
\* (2020-01-01, 1.23, x, geprueft).
C14_FlagFromFourthColumn ==
    \A row \in {DataRow, VerifiedRow} :
        OneRowSheet(row)
        => /\ ret.raised = "none" /\ ~ret.dat.none
           /\ ret.dat.rows = <<[date |-> "2020-01-01", value |-> "1.23",
                                flag |-> (row[4] = VERIFIED)]>>

C14_Witness ==
    /\ OneRowSheet(DataRow)
    /\ Len(ret.dat.rows) = 1 /\ ret.dat.rows[1].flag = FALSE

\* base, loc and co as the loop of the last call left them
LoopEnd == block_loop(loop_start, df, variable, skip_data, block_ranges(df), 1)

MetaKeys == DOMAIN LoopEnd.base \cup DOMAIN LoopEnd.loc \cup DOMAIN LoopEnd.co

\* C15: the metadata record parse_dirty_dataframe returns is the union of
\* the mappings of blocks 0, 1 and 2, a key of several blocks having the
\* value of the block with the highest ordinal; it is None, and never an
\* empty mapping, exactly when the three blocks contribute no key.
C15_MetadataIsUnion ==
    (Parsed /\ ret.raised = "none")
    => /\ ret.meta.none <=> MetaKeys = {}
       /\ ~ret.meta.none
          => /\ DOMAIN ret.meta.dict = MetaKeys
             /\ DOMAIN ret.meta.dict # {}
             /\ \A k \in MetaKeys :
                   ret.meta.dict[k] =
                       IF k \in DOMAIN LoopEnd.co THEN LoopEnd.co[k]
                       ELSE IF k \in DOMAIN LoopEnd.loc THEN LoopEnd.loc[k]
                       ELSE LoopEnd.base[k]

\* the key 'ID' is in all three blocks, with three values
C15_Witness ==
    /\ Parsed /\ ret.raised = "none" /\ ~ret.meta.none
    /\ Content(0) = <<IdRow, NumberRow>> /\ Content(1) = <<Id2Row>>
    /\ Content(2) = <<CoordinateIdHeader, CoordinateRow>>
    /\ ret.meta.dict["ID"] = "e1"
    /\ ret.meta.dict["Messstellennummer"] = "s1"

\* no block contributes a key
C15_WitnessNone ==
    /\ Parsed /\ ret.raised = "none" /\ ret.meta.none
    /\ Content(0) = <<KeyOnlyRow>> /\ Content(2) = <<CoordinateHeader>>

\* C16: parse_dirty_dataframe returns a series only if skip_data is false,
\* the sheet has a block with the ordinal 3 and block 0 has a row with the
\* key 'ID'; in every other case the series it returns is None.
C16_SeriesOnlyWithId ==
    (Parsed /\ ret.raised = "none" /\ ~ret.dat.none)
    => /\ ~skip_data
       /\ Len(ret.blocks) >= 4
       /\ IdRows # {}

C16_Witness ==
    /\ Parsed /\ ret.raised = "none" /\ ~ret.dat.none
    /\ Len(ret.dat.rows) = 2
    /\ ~skip_data /\ Len(ret.blocks) = 4 /\ IdRows # {}

\* the data block is a header row followed by rows of which one at least has
\* a value that is no number or a date that is no date
DataRowsOf == Tail(Content(3))

BadRowSheet ==
    /\ Parsed /\ ~skip_data /\ Len(ret.blocks) = 4
    /\ IdRows # {} /\ HeadParses
    /\ Len(Content(3)) >= 2 /\ Content(3)[1] = DataHeader
    /\ \A r \in 1..Len(DataRowsOf) : DataRowsOf[r] \in {VerifiedRow, BadValueRow, BadDateRow}
    /\ \E r \in 1..Len(DataRowsOf) : DataRowsOf[r] \in {BadValueRow, BadDateRow}

\* C21: a row of the data block whose value cell is not numeric or whose
\* date cell cannot be parsed does not abort the extraction: the series is
\* returned with the other rows, and a diagnostic is emitted for the data
\* block.
C21_RowErrorsRecoverable ==
    BadRowSheet
    => /\ ret.raised = "none" /\ ~ret.dat.none
       /\ \A r \in 1..Len(DataRowsOf) :
             DataRowsOf[r] = VerifiedRow
             => \E k \in 1..Len(ret.dat.rows) :
                   ret.dat.rows[k] = [date |-> "2020-01-01", value |-> "1.23", flag |-> TRUE]
       /\ \E k \in 1..Len(ret.warns) : ret.warns[k].info = <<4>>

\* the data block is a header row followed by rows with a date and a number
FlagSheet ==
    /\ Parsed /\ ~skip_data /\ Len(ret.blocks) = 4
    /\ IdRows # {} /\ HeadParses
    /\ Len(Content(3)) >= 2 /\ Content(3)[1] = DataHeader
    /\ \A r \in 1..Len(DataRowsOf) :
          DataRowsOf[r] \in {DataRow, VerifiedRow, CaseRow, SpaceRow, NoFlagRow}

EmptyFlagCell == \E r \in 1..Len(DataRowsOf) : isnull(DataRowsOf[r][4])

\* the flag of every observation tells whether its cell is one of `markers`
FlagsAre(markers) ==
    /\ ret.raised = "none" /\ ~ret.dat.none
    /\ Len(ret.dat.rows) = Len(DataRowsOf)
    /\ \A r \in 1..Len(DataRowsOf) : ret.dat.rows[r].flag = (DataRowsOf[r][4] \in markers)

\* C22 (as claimed): the flag of every observation is true exactly when the
\* cell in column 3 equals the marker ignoring letter case; surrounding
\* whitespace makes it false.
C22_FlagPlainEquality ==
    (FlagSheet /\ ~EmptyFlagCell) => FlagsAre({"geprueft", "Geprueft"})

\* C22 (amended): the flag of every observation is true exactly when the
\* text in column 3, with the surrounding whitespace stripped, equals the
\* marker ignoring letter case, and false for every other text; an empty
\* cell in that column is no text, and the call raises AttributeError.
C22_FlagStrippedEquality ==
    FlagSheet => IF EmptyFlagCell THEN ret.raised = "AttributeError"
                 ELSE FlagsAre({"geprueft", "Geprueft", " geprueft "})

C22_Witness ==
    /\ FlagSheet /\ Content(3) = <<DataHeader, CaseRow, SpaceRow>>
    /\ ret.dat.rows[1].flag = TRUE /\ ret.dat.rows[2].flag = TRUE

(***************************************************************************)
(* parse_dirty_dataframe on sheets with more than four blocks              *)
(***************************************************************************)
MaxTail == 2

LateKeyRow == <<"Pegel", "late", NA, NA>>

\* the rows that follow the empty row which ends block 3
TailRows == {LateRow, BadValueRow, Id2Row, LateKeyRow, EmptyRow}

\* the four blocks in front of them
HeadSheets ==
    { b0 \o <<EmptyRow>> \o <<NameRow>> \o <<EmptyRow>>
         \o <<CoordinateHeader, CoordinateRow>> \o <<EmptyRow>> \o b3 :
        b0 \in {<<IdRow, NumberRow>>, <<NumberRow>>},
        b3 \in {<<DataHeader, VerifiedRow>>, <<DataHeader, DataRow>>, <<DataHeader>>} }

TailSheets ==
    { h \o <<EmptyRow>> \o t : h \in HeadSheets, t \in SeqsUpTo(TailRows, MaxTail) }

InitTail ==
    /\ pc = "parse"
    /\ df \in TailSheets
    /\ skip_data = FALSE /\ variable = "q" /\ ret = NoRet
    /\ metadata = <<>> /\ data = <<>> /\ wa = <<>>
    /\ it = 0 /\ provider_id = 0 /\ q_df = NoDf /\ w_df = NoDf
    /\ saved = <<>> /\ warns = <<>> /\ printed = <<>> /\ log = NoLog
    /\ zip = <<>> /\ nr = IntNr(0) /\ not_exists = "omitted"
    /\ now = 0 /\ handles = {}
    /\ filelist = <<>> /\ meta_list = <<>> /\ q_list = <<>> /\ w_list = <<>> /\ zips = NoZips

SpecTail == InitTail /\ [][NextParse]_vars

\* the sheet of the last call up to the end of block 3
FirstFour == SubSeq(ret.sheet, 1, ret.blocks[4][2])

\* the rows of the blocks with ordinal 4 and above, separators left out
LateRows ==
    {ret.sheet[r] : r \in (ret.blocks[4][2] + 1)..Len(ret.sheet)} \ {EmptyRow}

\* C26: only the blocks with ordinal 0 to 3 contribute: the call returns
\* the metadata, the series and the diagnostics it returns for the sheet
\* cut after block 3, so the rows of later blocks appear in neither and no
\* diagnostic is emitted for them.
C26_LateBlocksIgnored ==
    (Parsed /\ Len(ret.blocks) > 4) =>
        LET r == parse_dirty_dataframe(FirstFour, variable, skip_data)
        IN /\ ret.raised = r.raised
           /\ ret.meta = r.meta
           /\ ret.dat = r.dat
           /\ ret.warns = r.warns
           /\ \A k \in 1..Len(ret.warns) : ret.warns[k].info[1] <= 4

C26_Witness ==
    /\ Parsed /\ Len(ret.blocks) = 5 /\ ~skip_data
    /\ LateRows = {LateRow, LateKeyRow}
    /\ ret.raised = "none" /\ ~ret.dat.none /\ Len(ret.dat.rows) = 1
    /\ ~ret.meta.none /\ ~("Pegel" \in DOMAIN ret.meta.dict)

(***************************************************************************)
(* parse_dirty_dataframe called twice on the same sheet                    *)
(***************************************************************************)
MaxNow == 1
MaxDataRows == 2

TodayRow == <<TODAY, "1.23", "x", "geprueft">>

TwiceSheets ==
    { b0 \o <<EmptyRow>> \o b1 \o <<EmptyRow>> \o b2 \o <<EmptyRow, DataHeader>> \o rows :
        b0 \in {<<IdRow, NumberRow>>, <<NumberRow>>, <<>>},
        b1 \in {<<NameRow>>, <<KeyOnlyRow>>},
        b2 \in Block2s,
        rows \in SeqsUpTo({DataRow, VerifiedRow, TodayRow, BadValueRow}, MaxDataRows) }

InitTwice ==
    /\ pc = "parse"
    /\ df \in TwiceSheets
    /\ skip_data = FALSE /\ variable = "q" /\ ret = NoRet
    /\ metadata = <<>> /\ data = <<>> /\ wa = <<>>
    /\ it = 0 /\ provider_id = 0 /\ q_df = NoDf /\ w_df = NoDf
    /\ saved = <<>> /\ warns = <<>> /\ printed = <<>> /\ log = NoLog
    /\ zip = <<>> /\ nr = IntNr(0) /\ not_exists = "omitted"
    /\ now = 0 /\ handles = {}
    /\ filelist = <<>> /\ meta_list = <<>> /\ q_list = <<>> /\ w_list = <<>> /\ zips = NoZips

\* the day changes
Tick ==
    /\ pc \in {"parse", "parsed"} /\ now < MaxNow
    /\ now' = now + 1
    /\ UNCHANGED <<listVars, handles, pc, bayernCallVars, batchVars, saved, warns, brandVars>>

\* line 221 run once more: the same call with the same arguments
CallAgain ==
    /\ pc = "parsed" /\ ret.fn = "parse_dirty_dataframe"
    /\ LET r == parse_dirty_dataframe(df, variable, skip_data)
       IN ret' = [fn |-> "parse_dirty_dataframe", raised |-> r.raised,
                  blocks |-> block_ranges(df), sheet |-> df,
                  meta |-> r.meta, dat |-> r.dat, warns |-> r.warns,
                  first |-> ret]
    /\ df' = df_after(df, variable, skip_data)
    /\ pc' = "again"
    /\ UNCHANGED <<listVars, handles, now, zip, nr, variable, not_exists, batchVars, saved, warns, wa,
                   skip_data, metadata, data>>

NextTwice == CallParse \/ Tick \/ CallAgain

SpecTwice == InitTwice /\ [][NextTwice]_vars

Again == pc = "again"

\* the sheet is the one the call got: no cell rewritten, no row or column
\* removed
SheetUnchanged ==
    /\ (Parsed \/ Again) => df = ret.sheet
    /\ Again => ret.sheet = ret.first.sheet

\* some date cell of the data block is a relative date
RelativeDates ==
    Len(ret.blocks) >= 4 /\ \E r \in 1..Len(Content(3)) : Content(3)[r][1] = TODAY

HandleFiles == BatchFiles \cup {Header, SubSeq(Header, 1, 6), <<>>}

\* the archive 'Abfluesse.zip' as far as it concerns station 1: no member,
\* or one, sound or damaged
HandleArchives ==
    {<<>>} \cup {<<[filename |-> <<"1", ".", "t">>, lines |-> f, corrupt |-> c]>> :
                    f \in HandleFiles, c \in BOOLEAN}

InitHandles ==
    /\ pc = "call"
    /\ zip \in HandleArchives
    /\ nr \in Requests
    /\ variable = "q" /\ not_exists = "omitted" /\ ret = NoRet
    /\ now = 0 /\ handles = {}
    /\ filelist = <<>> /\ meta_list = <<>> /\ q_list = <<>> /\ w_list = <<>> /\ zips = NoZips
    /\ Idle

\* read_meta, lines 239-250: the pass of the loops for one station and one
\* of the two archive names
CallReadMeta ==
    /\ pc = "call"
    /\ LET m == read_meta_file(nr, zip)
       IN /\ ret' = [fn |-> "read_meta", raised |-> m.raised, file |-> None,
                     df |-> NoDf, warns |-> <<>>, tup |-> m.tup]
          /\ handles' = handles \cup m.open
    /\ pc' = "returned"
    /\ UNCHANGED <<listVars, now, zip, nr, variable, not_exists, batchVars, saved, warns, brandVars>>

NextHandles == CallExtractFile \/ CallReadMeta

SpecHandles == InitHandles /\ [][NextHandles]_vars

\* C20: every archive member opened for a station is closed when the
\* processing of the station ends, on every path, by extract_file and by
\* read_meta: no member is open when the next station starts.
C20_HandlesClosed ==
    (pc = "returned" /\ ret.fn \in {"extract_file", "read_meta"}) => handles = {}

(***************************************************************************)
(* Bayern: read_meta(scan_files=True) for one station                      *)
(***************************************************************************)
\* the header of a member, with the texts of its lines 5 and 6
MetaHeader(tz, unit) ==
    [Header EXCEPT ![6] = [n |-> 1, val |-> tz, ts |-> 0],
                   ![7] = [n |-> 1, val |-> unit, ts |-> 0]]

\* an archive as far as it concerns station 1: no member, or one
MetaArchives(tz, unit) ==
    {<<>>} \cup {<<[filename |-> <<"1", ".", "t">>, lines |-> f]>> :
                    f \in {MetaHeader(tz, unit), MetaHeader(tz, unit) \o <<Line(4, "5")>>,
                           SubSeq(MetaHeader(tz, unit), 1, 6)}}

\* line 241: the archive that is opened in pass i of the inner loop,
\* os.path.join(base_path, 'Abfluesse.zip') for either value of _zip
opened_zip(i, zs) == zs.q

\* the text of a header line, as it is stored in the table
cell_text(l) == l.val

\* lines 242-250: what a pass appends to extras, given the member f and
\* the outcome m of reading it
pass_tup(f, m) ==
    IF m.raised # "none"
    THEN [raised |-> m.raised, tz |-> None, unit |-> None, open |-> m.open]
    ELSE IF f.file = None
         THEN [raised |-> "none", tz |-> None, unit |-> None, open |-> m.open]
         ELSE [raised |-> "none", tz |-> cell_text(m.tup[1]),
               unit |-> cell_text(m.tup[2]), open |-> m.open]

\* lines 241-250: pass i of the inner loop
scan_pass(r, i, zs) ==
    pass_tup(get_file_from_zip(r, opened_zip(i, zs), "return_none"),
             read_meta_file(r, opened_zip(i, zs)))

\* lines 253-256: the row of the station, given the two passes
meta_row(p0, p1) ==
    IF p0.raised # "none"
    THEN [raised |-> p0.raised, row |-> <<>>, open |-> p0.open]
    ELSE IF p1.raised # "none"
    THEN [raised |-> p1.raised, row |-> <<>>, open |-> p0.open \cup p1.open]
    ELSE [raised |-> "none",
          row |-> [timezone_q |-> p0.tz, unit_q |-> p0.unit,
                   timezone_w |-> p1.tz, unit_w |-> p1.unit],
          open |-> p0.open \cup p1.open]

\* lines 239-256: the passes for one station and its row of the table
read_meta(r, zs) == meta_row(scan_pass(r, 0, zs), scan_pass(r, 1, zs))

InitMeta ==
    /\ pc = "call"
    /\ zips \in [q : MetaArchives("MEZ", "m3/s"), w : MetaArchives("UTC", "cm")]
    /\ nr \in Requests
    /\ zip = <<>> /\ variable = "q" /\ not_exists = "omitted" /\ ret = NoRet
    /\ now = 0 /\ handles = {}
    /\ filelist = <<>> /\ meta_list = <<>> /\ q_list = <<>> /\ w_list = <<>>
    /\ Idle

\* line 261: metadata = read_meta(BASE)
CallReadMetaScan ==
    /\ pc = "call"
    /\ LET m == read_meta(nr, zips)
       IN /\ ret' = [fn |-> "read_meta(scan_files=True)", raised |-> m.raised, file |-> None,
                     df |-> NoDf, warns |-> <<>>, row |-> m.row]
          /\ handles' = handles \cup m.open
    /\ pc' = "returned"
    /\ UNCHANGED <<listVars, now, zip, nr, variable, not_exists, batchVars, saved, warns, brandVars>>

NextMeta == CallReadMetaScan

SpecMeta == InitMeta /\ [][NextMeta]_vars

\* the station's member in archive z, if there is one, has a line 5 and a
\* line 6
HasHeaderPair(z) ==
    LET f == get_file_from_zip(nr, z, "return_none")
    IN f.file # None => Len(header_lines(content(z, f.file))) = 2

\* header lines 5 and 6 of the station's member in archive z, None when
\* the station has no member in it
HeaderPair(z) ==
    LET f == get_file_from_zip(nr, z, "return_none")
    IN IF f.file = None THEN <<None, None>>
       ELSE LET h == header_lines(content(z, f.file))
            IN <<cell_text(h[1]), cell_text(h[2])>>

\* C28: read_meta(scan_files=True) fills timezone_q and unit_q from header
\* lines 5 and 6 of the station's member in the discharge archive and
\* timezone_w and unit_w from header lines 5 and 6 of its member in the
\* water-level archive, each pair being None when the archive has no
\* member of the station.
C28_UnitsFromOwnArchive ==
    (pc = "returned" /\ ret.fn = "read_meta(scan_files=True)" /\ ret.raised = "none") =>
        /\ HasHeaderPair(zips.q) =>
              <<ret.row.timezone_q, ret.row.unit_q>> = HeaderPair(zips.q)
        /\ HasHeaderPair(zips.w) =>
              <<ret.row.timezone_w, ret.row.unit_w>> = HeaderPair(zips.w)

(***************************************************************************)
(* Properties of get_file_from_zip and extract_file                        *)
(***************************************************************************)
Returned(f) == pc = "returned" /\ ret.fn = f

\* the text of the request is the full name or the short id of a member
Matches(r, z) ==
    \E i \in 1..Len(z) : z[i].filename = str_nr(r) \/ id_only(z[i].filename) = str_nr(r)

\* the data region of the member the call of SpecExtract reads
DataLines == drop_lines(zip[1].lines, HEADER_LINES)

StrictFailed == \E i \in 1..Len(DataLines) : DataLines[i].n > DataLines[1].n

Negative(line) == line.n >= 2 /\ line.val = "-5"

Unconvertible(line) == line.n < 2 \/ line.val = "1,5"

\* the lines the fallback keeps, when every value converts
KeptLines == Filter(DataLines, [i \in 1..Len(DataLines) |-> ~Negative(DataLines[i])], 1)

ReparseFails ==
    KeptLines = <<>> \/ \E i \in 1..Len(KeptLines) : KeptLines[i].n > KeptLines[1].n

\* the fallback ran and its second read_csv succeeded
FallbackReparsed ==
    /\ StrictFailed
    /\ \A i \in 1..Len(DataLines) : ~Unconvertible(DataLines[i])
    /\ ~ReparseFails

\* 0-based positions, in the member, of the lines the fallback excludes
ExcludedPositions ==
    {i - 1 + HEADER_LINES : i \in {j \in 1..Len(DataLines) : Negative(DataLines[j])}}

IsFaultyRowsWarning(w) == w.category = "FormatError" /\ w.detail = "Faulty rows"

IsThreeColumnWarning(w) ==
    w.category = "FormatError" /\ w.detail = "raw file has only 3 columns"

\* the rows of a returned frame are the given lines, in order
RowsAre(frame, lines) ==
    /\ Len(frame.rows) = Len(lines)
    /\ \A i \in 1..Len(lines) : frame.rows[i].date = lines[i].ts

\* the strict read_csv of line 159 returned a table
StrictSucceeded == DataLines # <<>> /\ ~StrictFailed

\* every data line is a row of the returned frame, with the day of the
\* line and the number its value text denotes
EveryLineReturned ==
    /\ ret.raised = "none" /\ ~ret.df.none
    /\ RowsAre(ret.df, DataLines)
    /\ \A i \in 1..Len(DataLines) : ret.df.rows[i].value = value_cell(DataLines[i])
    /\ \A k \in 1..Len(ret.warns) : ~IsFaultyRowsWarning(ret.warns[k])

C3_FallbackFailureContained ==
    (/\ Returned("extract_file")
     /\ StrictFailed
     /\ \/ \E i \in 1..Len(DataLines) : Unconvertible(DataLines[i])
        \/ ReparseFails)
    => /\ ret.raised = "none"
       /\ ret.df.rows = <<>>
       /\ \E i \in 1..Len(ret.warns) : ret.warns[i].nr = nr

ThreeColumnsStrict == DataLines # <<>> /\ ~StrictFailed /\ DataLines[1].n = 3

ThreeColumnsFallback == FallbackReparsed /\ KeptLines[1].n = 3

\* C5 (as claimed): with three columns extract_file returns the fully parsed
\* series and emits exactly one diagnostic for the file, on the strict path
\* and on the fallback path.
C5_ExactlyOneDiagnostic ==
    (Returned("extract_file") /\ (ThreeColumnsStrict \/ ThreeColumnsFallback))
    => /\ ret.raised = "none"
       /\ ret.df.columns = <<"date", variable, "flag">>
       /\ RowsAre(ret.df, IF ThreeColumnsStrict THEN DataLines ELSE KeptLines)
       /\ Len(ret.warns) = 1

\* C5 (amended): with three columns extract_file returns the fully parsed
\* series and emits exactly one three-column diagnostic, as the last one; it
\* is the only diagnostic on the strict path and follows the 'Faulty rows'
\* diagnostic on the fallback path.
C5_OneThreeColumnDiagnostic ==
    (Returned("extract_file") /\ (ThreeColumnsStrict \/ ThreeColumnsFallback))
    => /\ ret.raised = "none"
       /\ ret.df.columns = <<"date", variable, "flag">>
       /\ RowsAre(ret.df, IF ThreeColumnsStrict THEN DataLines ELSE KeptLines)
       /\ Cardinality({i \in 1..Len(ret.warns) : IsThreeColumnWarning(ret.warns[i])}) = 1
       /\ IsThreeColumnWarning(ret.warns[Len(ret.warns)])
       /\ Len(ret.warns) = (IF ThreeColumnsStrict THEN 1 ELSE 2)
       /\ ThreeColumnsFallback => IsFaultyRowsWarning(ret.warns[1])

C5_Witness ==
    /\ Returned("extract_file") /\ ThreeColumnsFallback
    /\ Len(ret.df.rows) = 2
    /\ Len(ret.warns) = 2

\* C7: when the request matches no member, 'raise' and the omitted argument
\* give FileNotFoundError, from get_file_from_zip and from extract_file; any
\* other policy gives None, and from extract_file a zero-row table with the
\* columns date, variable, flag.
C7_NotExistsPolicy ==
    (pc = "returned" /\ ~Matches(nr, zip))
    => IF not_exists \in {"omitted", "raise"}
       THEN ret.raised = "FileNotFoundError"
       ELSE /\ ret.raised = "none"
            /\ ret.fn = "get_file_from_zip" => ret.file = None
            /\ ret.fn = "extract_file" =>
                  /\ ~ret.df.none
                  /\ ret.df.columns = <<"date", variable, "flag">>
                  /\ ret.df.rows = <<>>

C7_Witness ==
    /\ Returned("extract_file") /\ ~Matches(nr, zip) /\ zip # <<>>
    /\ not_exists = "fill_nan"
    /\ ret.raised = "none" /\ ret.df.rows = <<>>

\* C8 (as claimed): for every member p with short id k, a request that is
\* k, the integer whose decimal text is k, or p resolves to p, also when two
\* members share a short id.
C8_ResolvesEveryMember ==
    Returned("get_file_from_zip")
    => \A i \in 1..Len(zip) :
          (str_nr(nr) = zip[i].filename \/ str_nr(nr) = id_only(zip[i].filename))
          => ret.file = zip[i].filename

LastWithId(z, i) ==
    \A j \in 1..Len(z) : j > i => id_only(z[j].filename) # id_only(z[i].filename)

\* the text names one member in full and is the short id of another
Ambiguous(t, z) ==
    /\ \E i \in 1..Len(z) : z[i].filename = t
    /\ \E j \in 1..Len(z) : id_only(z[j].filename) = t /\ z[j].filename # t

\* C8 (amended): a request that is the full name p resolves to p, and a
\* request that is the short id k (as text or as the integer with that
\* decimal text) resolves to the last member in archive order whose short id
\* is k, provided the request text is not at once the full name of one
\* member and the short id of another.
C8_ResolvesLastMember ==
    (Returned("get_file_from_zip") /\ ~Ambiguous(str_nr(nr), zip))
    => \A i \in 1..Len(zip) :
          /\ str_nr(nr) = zip[i].filename => ret.file = zip[i].filename
          /\ (str_nr(nr) = id_only(zip[i].filename) /\ LastWithId(zip, i))
                => ret.file = zip[i].filename

C8_Witness ==
    /\ Returned("get_file_from_zip") /\ ~Ambiguous(str_nr(nr), zip)
    /\ nr.isint /\ nr.n = 1
    /\ Len(zip) = 2
    /\ id_only(zip[1].filename) = id_only(zip[2].filename)
    /\ ret.file = zip[2].filename

(***************************************************************************)
(* Nordrhein-Westfalen: the per-file loop, the metadata table, the saves   *)
(***************************************************************************)
\* line 358 and line 375: the header is the first 32 lines of a file
NRW_HEADER == 32
\* line 388: skiprows=32
SKIPROWS == 32

MaxBody == 34
MaxFiles == 2

\* the k-th line after the header of the file of station s and parameter p;
\* head: the line starts with 'Station'
BodyLine(s, p, k, h) == [file |-> <<s, p>>, index |-> NRW_HEADER + k - 1, head |-> (k = h)]

\* a file: what its header says, and the n lines after the header, of which
\* the h-th starts with 'Station' (h = 0: none does)
NrwFile(s, p, n, h) ==
    [Stationsnummer |-> s, Parameter |-> p,
     lines |-> [k \in 1..n |-> BodyLine(s, p, k, h)]]

NrwStations == {"4711", "4712"}
NrwParameters == {"Wasserstand", "Abfluss", "Temperatur"}

\* lines 358-362: header, tups, meta_dict
split_header(f) == [Stationsnummer |-> f.Stationsnummer, Parameter |-> f.Parameter]

\* lines 365-370
check_parameter(meta_dict) ==
    IF meta_dict.Parameter = "Wasserstand" THEN "w"
    ELSE IF meta_dict.Parameter = "Abfluss" THEN "q"
    ELSE "RuntimeError"

\* line 378
second_header(body) == {i \in 1..Len(body) : body[i].head}

\* lines 375-381: body = txt.splitlines()[32:], cut before the second header
cut_body(f) ==
    LET body == f.lines
        sh == second_header(body)
    IN IF sh # {}
       THEN SubSeq(body, 1, (CHOOSE i \in sh : \A j \in sh : i <= j) - 1)
       ELSE body

\* one row of df_data: the date and the value read from a line, flag NaN
Observation(l) == [line |-> l, flag |-> NaN]

\* line 388: pd.read_csv(buffer, ..., skiprows=32, header=None, ...): the
\* first 32 lines of the buffer are skipped, a buffer with nothing after
\* them raises pandas.errors.EmptyDataError
nrw_read_csv(body) ==
    IF Len(body) <= SKIPROWS
    THEN [raised |-> "EmptyDataError", rows |-> <<>>]
    ELSE [raised |-> "none",
          rows |-> [k \in 1..(Len(body) - SKIPROWS) |-> Observation(body[SKIPROWS + k])]]

\* lines 354-394: the pass of the loop for one file; appended: what the
\* pass appends to meta
parse_file(f) ==
    LET meta_dict == split_header(f)
        v == check_parameter(meta_dict)
        r == nrw_read_csv(cut_body(f))
    IN IF v = "RuntimeError"
       THEN [raised |-> "RuntimeError", appended |-> <<>>, variable |-> None, df_data |-> NoDf]
       ELSE IF r.raised # "none"
       THEN [raised |-> r.raised, appended |-> <<meta_dict>>, variable |-> v, df_data |-> NoDf]
       ELSE [raised |-> "none", appended |-> <<meta_dict>>, variable |-> v,
             df_data |-> Frame(<<"date", v, "flag">>, r.rows)]

\* line 443: the ID column
ID(r) == <<r.Stationsnummer, "_", r.Parameter>>

\* line 445
id_column == "ID"

\* line 465: the column bl.save_raw_metadata is given as the id column
raw_metadata_id == "Stationsnummer"

\* lines 414-445 and 465: the table handed to bl.save_raw_metadata, one
\* row per element of meta, and the identifier it is saved under
raw_metadata(ms) ==
    [i \in 1..Len(ms) |->
        LET row == [Stationsnummer |-> ms[i].Stationsnummer,
                    Parameter |-> ms[i].Parameter, ID |-> ID(ms[i])]
        IN [id |-> row[raw_metadata_id], row |-> row]]

\* every file the loop can meet
NrwFiles ==
    {NrwFile(s, p, n, h) : s \in NrwStations, p \in NrwParameters,
                           n \in 0..MaxBody, h \in 0..MaxBody}

\* the files of the batch: bodies around the 32 lines read_csv skips
NrwBatchFiles ==
    {NrwFile(s, p, n, h) : s \in NrwStations, p \in NrwParameters,
                           n \in {SKIPROWS, MaxBody}, h \in {0, MaxBody}}

NrwIdle ==
    /\ Idle /\ zip = <<>> /\ nr = IntNr(0) /\ not_exists = "omitted"
    /\ variable = "q" /\ ret = NoRet /\ now = 0 /\ handles = {}
    /\ meta_list = <<>> /\ q_list = <<>> /\ w_list = <<>> /\ zips = NoZips

InitNRW ==
    /\ pc = "nrw_for"
    /\ filelist \in SeqsUpTo(NrwBatchFiles, MaxFiles)
    /\ NrwIdle

\* one file alone, of any shape
InitNrwFile ==
    /\ pc = "nrw_for"
    /\ filelist \in {<<f>> : f \in NrwFiles}
    /\ NrwIdle

\* lines 352-394: for fname in tqdm(filelist)
NrwParseFile ==
    /\ pc = "nrw_for" /\ it < Len(filelist)
    /\ LET r == parse_file(filelist[it + 1])
       IN /\ meta_list' = meta_list \o r.appended
          /\ variable' = IF r.variable = None THEN variable ELSE r.variable
          /\ ret' = [fn |-> "parse_file", raised |-> r.raised, file |-> None,
                     df |-> r.df_data, warns |-> <<>>]
          /\ IF r.raised = "none"
             THEN /\ data' = Append(data, r.df_data)
                  /\ pc' = "nrw_for"
             ELSE /\ data' = data
                  /\ pc' = "nrw_crashed"
    /\ it' = it + 1
    /\ UNCHANGED <<filelist, q_list, w_list, zips, handles, now, zip, nr, not_exists, provider_id,
                   q_df, w_df, printed, log, saved, warns, wa, df, skip_data, metadata>>

\* lines 414-445 and 463-465: the table is built and saved
NrwSaveMetadata ==
    /\ pc = "nrw_for" /\ it = Len(filelist)
    /\ metadata' = raw_metadata(meta_list)
    /\ it' = 0
    /\ pc' = "nrw_save"
    /\ UNCHANGED <<listVars, handles, now, bayernCallVars, provider_id, q_df, w_df, printed,
                   log, saved, warns, wa, df, skip_data, data>>

\* lines 473-476: for m, df in zip(meta, data)
NrwSaveSeries ==
    /\ pc = "nrw_save" /\ it < Len(meta_list) /\ it < Len(data)
    /\ provider_id' = meta_list[it + 1].Stationsnummer
    /\ saved' = Append(saved, [provider_id |-> meta_list[it + 1].Stationsnummer,
                               df |-> data[it + 1]])
    /\ it' = it + 1
    /\ UNCHANGED <<listVars, handles, now, bayernCallVars, pc, q_df, w_df, printed, log, warns,
                   brandVars>>

\* lines 479-481
NrwSaveEnd ==
    /\ pc = "nrw_save" /\ (it = Len(meta_list) \/ it = Len(data))
    /\ log' = IF Len(warns) > 0 THEN warns ELSE log
    /\ pc' = "nrw_done"
    /\ UNCHANGED <<listVars, handles, now, bayernCallVars, it, provider_id, q_df, w_df, printed,
                   saved, warns, brandVars>>

NextNRW == NrwParseFile \/ NrwSaveMetadata \/ NrwSaveSeries \/ NrwSaveEnd

SpecNRW == InitNRW /\ [][NextNRW]_vars

SpecNrwFile == InitNrwFile /\ [][NextNRW]_vars

\* the (station, variable) pair the i-th saved series belongs to
PairOf(i) == <<meta_list[i].Stationsnummer, meta_list[i].Parameter>>

\* C24: the identifier a metadata row and its series are saved under is
\* distinct for distinct (station, variable) pairs: the water-level series
\* and the discharge series of one Stationsnummer never share a provider id.
C24_IdsDistinctPerPair ==
    /\ \A i, j \in 1..Len(saved) :
          PairOf(i) # PairOf(j) => saved[i].provider_id # saved[j].provider_id
    /\ (pc \in {"nrw_save", "nrw_done"}) =>
          \A i, j \in 1..Len(metadata) :
              <<metadata[i].row.Stationsnummer, metadata[i].row.Parameter>>
                  # <<metadata[j].row.Stationsnummer, metadata[j].row.Parameter>>
              => metadata[i].id # metadata[j].id

\* the lines of the file at index 32 and above that precede the first of
\* them starting with 'Station'
BodyLines(f) ==
    LET sh == {i \in 1..Len(f.lines) : f.lines[i].head}
        stop == IF sh = {} THEN Len(f.lines) + 1 ELSE CHOOSE i \in sh : \A j \in sh : i <= j
    IN SubSeq(f.lines, 1, stop - 1)

\* C25: the series of a file holds one observation for every body line, in
\* file order; no body line is skipped.
C25_EveryBodyLineRead ==
    (pc = "nrw_for" /\ it = 1 /\ ret.fn = "parse_file") =>
        LET lines == BodyLines(filelist[1])
        IN /\ Len(data) = 1
           /\ Len(data[1].rows) = Len(lines)
           /\ \A k \in 1..Len(lines) : data[1].rows[k].line = lines[k]

(***************************************************************************)
(* Sachsen: the per-file loop and the save loop                            *)
(***************************************************************************)
\* df.columns[0], df.columns[1], df.columns[2]
META_COLUMNS == <<"Pegelkennziffer", "Pegelname", "Gewaesser">>

\* row k of the workbook of station s; the cells of the two data columns
\* stand for the numbers of that station on that day
SachsenRow(s, name, k) ==
    [Pegelkennziffer |-> s, Pegelname |-> name, Gewaesser |-> "g",
     Datum |-> k, Q |-> <<"q", s, k>>, W |-> <<"w", s, k>>]

\* a workbook: has_columns tells whether it has the columns 'Datum',
\* 'Durchfluss (Q) m3/s' and 'Wasserstand (W) cm'
SachsenFile(ok, rows) == [has_columns |-> ok, rows |-> rows]

SachsenStations == {"576391", "576401"}

SachsenFiles ==
    {SachsenFile(TRUE, rows) :
        rows \in UNION {{ <<SachsenRow(s, "n", 1), SachsenRow(s, "n", 2)>>,
                          <<SachsenRow(s, "n", 1)>>,
                          <<SachsenRow(s, "a", 1), SachsenRow(s, "b", 2)>> } :
                        s \in SachsenStations} \cup {<<>>}}
    \cup {SachsenFile(FALSE, <<SachsenRow("576391", "n", 1)>>)}

\* lines 394-400: q_df and w_df
data_columns(f, v) ==
    Frame(<<"date", v, "flag">>,
          [k \in 1..Len(f.rows) |->
              [date |-> f.rows[k].Datum,
               value |-> IF v = "q" THEN f.rows[k].Q ELSE f.rows[k].W,
               flag |-> NaN]])

\* line 410: np.unique(df[df.columns[i]].values).size
unique_size(f, col) == Cardinality({f.rows[k][col] : k \in 1..Len(f.rows)})

\* a metadata record, or None
NoRecord == [none |-> TRUE, dict |-> EmptyDict]

\* lines 407-421: m, the warning and the error of the loop over range(3)
first_columns(f) ==
    LET bad == {i \in 1..3 : unique_size(f, META_COLUMNS[i]) > 1}
    IN IF f.rows = <<>>
       THEN [raised |-> "IndexError", m |-> NoRecord, warns |-> <<>>]
       ELSE IF bad # {}
       THEN [raised |-> "none", m |-> NoRecord,
             warns |-> <<[detail |-> "is expected to be unique",
                          info |-> <<META_COLUMNS[CHOOSE i \in bad : \A j \in bad : i <= j]>>]>>]
       ELSE [raised |-> "none",
             m |-> [none |-> FALSE,
                    dict |-> [Pegelkennziffer |-> f.rows[1].Pegelkennziffer,
                              Pegelname |-> f.rows[1].Pegelname,
                              Gewaesser |-> f.rows[1].Gewaesser,
                              unit_q |-> "m3/s", unit_w |-> "cm"]],
             warns |-> <<>>]

\* meta.append(m) for the records only
append_meta_records(m) == IF m.none THEN <<>> ELSE <<m>>

\* line 422: meta.append(m), whether m is None or not
append_meta(m) == <<m>>

\* lines 391-422: the pass of the loop for one file, and what it appends
\* to q, to w and to meta
ded_parse_file(f) ==
    LET c == first_columns(f)
    IN IF ~f.has_columns
       THEN [raised |-> "KeyError", q |-> <<>>, w |-> <<>>, meta |-> <<>>, warns |-> <<>>]
       ELSE IF c.raised # "none"
       THEN [raised |-> c.raised, q |-> <<data_columns(f, "q")>>,
             w |-> <<data_columns(f, "w")>>, meta |-> <<>>, warns |-> c.warns]
       ELSE [raised |-> "none", q |-> <<data_columns(f, "q")>>,
             w |-> <<data_columns(f, "w")>>, meta |-> append_meta(c.m), warns |-> c.warns]

InitSachsen ==
    /\ pc = "ded_for"
    /\ filelist \in SeqsUpTo(SachsenFiles, MaxFiles)
    /\ NrwIdle

\* lines 387-422: for filename in tqdm(files)
DedParseFile ==
    /\ pc = "ded_for" /\ it < Len(filelist)
    /\ LET r == ded_parse_file(filelist[it + 1])
       IN /\ q_list' = q_list \o r.q
          /\ w_list' = w_list \o r.w
          /\ meta_list' = meta_list \o r.meta
          /\ warns' = warns \o r.warns
          /\ ret' = [fn |-> "ded_parse_file", raised |-> r.raised, file |-> None,
                     df |-> NoDf, warns |-> r.warns]
          /\ pc' = IF r.raised = "none" THEN "ded_for" ELSE "ded_crashed"
    /\ it' = it + 1
    /\ UNCHANGED <<filelist, zips, handles, now, zip, nr, variable, not_exists, provider_id,
                   q_df, w_df, printed, log, saved, brandVars>>

\* line 424 and 634-640: the loop has ended, the save cell starts
DedParseEnd ==
    /\ pc = "ded_for" /\ it = Len(filelist)
    /\ printed' = Append(printed, Len(meta_list))
    /\ it' = 0
    /\ pc' = "ded_save"
    /\ UNCHANGED <<listVars, handles, now, bayernCallVars, provider_id, q_df, w_df, log,
                   saved, warns, brandVars>>

\* lines 643-649: for m, q_df, w_df in zip(meta, q, w)
DedSaveStation ==
    /\ pc = "ded_save"
    /\ it < Len(meta_list) /\ it < Len(q_list) /\ it < Len(w_list)
    /\ LET m == meta_list[it + 1]
       IN IF ~m.none
          THEN /\ provider_id' = m.dict.Pegelkennziffer
               /\ saved' = saved \o <<[provider_id |-> m.dict.Pegelkennziffer, df |-> q_list[it + 1]],
                                      [provider_id |-> m.dict.Pegelkennziffer, df |-> w_list[it + 1]]>>
          ELSE UNCHANGED <<provider_id, saved>>
    /\ q_df' = q_list[it + 1]
    /\ w_df' = w_list[it + 1]
    /\ it' = it + 1
    /\ UNCHANGED <<listVars, handles, now, bayernCallVars, pc, printed, log, warns, brandVars>>

\* lines 652-654
DedSaveEnd ==
    /\ pc = "ded_save"
    /\ (it = Len(meta_list) \/ it = Len(q_list) \/ it = Len(w_list))
    /\ log' = IF Len(warns) > 0 THEN warns ELSE log
    /\ pc' = "ded_done"
    /\ UNCHANGED <<listVars, handles, now, bayernCallVars, it, provider_id, q_df, w_df, printed,
                   saved, warns, brandVars>>

NextSachsen == DedParseFile \/ DedParseEnd \/ DedSaveStation \/ DedSaveEnd

SpecSachsen == InitSachsen /\ [][NextSachsen]_vars

(***************************************************************************)
(* The three drivers that fill parallel lists                              *)
(***************************************************************************)
InitLists == InitBrandenburg \/ InitSachsen \/ InitNRW

NextLists == NextBrandenburg \/ NextSachsen \/ NextNRW

SpecLists == InitLists /\ [][NextLists]_vars

\* Brandenburg: the i-th record and the i-th series are the two results of
\* one call of parse_dirty_dataframe on one sheet
BrandenburgAligned ==
    /\ Len(metadata) = Len(data)
    /\ \A i \in 1..Len(metadata) :
          \E sheet \in BookSheets, v \in {"q", "w"} :
             LET r == parse_dirty_dataframe(sheet, v, FALSE)
             IN r.raised = "none" /\ ~r.meta.none
                /\ metadata[i] = r.meta.dict /\ data[i] = r.dat
    /\ \A k \in 1..Len(saved) :
          \E i \in 1..Len(metadata) :
             /\ "Messstellennummer" \in DOMAIN metadata[i]
             /\ saved[k].provider_id = metadata[i]["Messstellennummer"]
             /\ saved[k].df = data[i]

\* Sachsen: the i-th record and the i-th series were read from the i-th
\* file; n: the files the loop has gone through
SachsenAligned(n) ==
    /\ Len(meta_list) = n /\ Len(q_list) = n /\ Len(w_list) = n
    /\ \A i \in 1..n :
          /\ q_list[i] = data_columns(filelist[i], "q")
          /\ w_list[i] = data_columns(filelist[i], "w")
          /\ meta_list[i] = first_columns(filelist[i]).m
    /\ \A k \in 1..Len(saved) : \A j \in 1..Len(saved[k].df.rows) :
          saved[k].df.rows[j].value[2] = saved[k].provider_id

\* Nordrhein-Westfalen: the same for meta and data
NrwAligned(n) ==
    /\ Len(meta_list) = n /\ Len(data) = n
    /\ \A i \in 1..n :
          /\ meta_list[i] = split_header(filelist[i])
          /\ data[i] = parse_file(filelist[i]).df_data
    /\ \A k \in 1..Len(saved) : \A j \in 1..Len(saved[k].df.rows) :
          saved[k].df.rows[j].line.file[1] = saved[k].provider_id

\* the pass for file n raised: the lists agree on the n - 1 files before
\* it, and the lists appended to before the error are one element longer
SachsenRaised(n) ==
    /\ Len(meta_list) = n - 1 /\ Len(q_list) = Len(w_list)
    /\ Len(q_list) \in {n - 1, n}
    /\ \A i \in 1..Len(q_list) :
          /\ q_list[i] = data_columns(filelist[i], "q")
          /\ w_list[i] = data_columns(filelist[i], "w")
    /\ \A i \in 1..(n - 1) : meta_list[i] = first_columns(filelist[i]).m

NrwRaised(n) ==
    /\ Len(data) = n - 1 /\ Len(meta_list) \in {n - 1, n}
    /\ \A i \in 1..Len(meta_list) : meta_list[i] = split_header(filelist[i])
    /\ \A i \in 1..(n - 1) : data[i] = parse_file(filelist[i]).df_data

\* C29: in every driver that fills parallel lists (Brandenburg: metadata,
\* data; Sachsen: meta, q, w; Nordrhein-Westfalen: meta, data), after any
\* number of processed files the lists have the same length and the i-th
\* series was parsed from the same file or sheet as the i-th record, so
\* that the save loop never pairs a series with the identifier of
\* another station.  A file is processed when its pass of the loop has
\* ended; a pass that raises ends the cell.
C29_ListsAligned ==
    /\ pc \in {"collect", "save", "done", "crashed"} => BrandenburgAligned
    /\ pc = "ded_for" => SachsenAligned(it)
    /\ pc \in {"ded_save", "ded_done"} => SachsenAligned(Len(filelist))
    /\ pc = "nrw_for" => NrwAligned(it)
    /\ pc \in {"nrw_save", "nrw_done"} => NrwAligned(Len(filelist))
    /\ pc = "ded_crashed" => SachsenRaised(it)
    /\ pc = "nrw_crashed" => NrwRaised(it)

\* two files of different stations have been read in Sachsen, the second
\* without a record, and the first has been saved
C29_Witness ==
    /\ pc = "ded_done" /\ Len(filelist) = 2
    /\ ~meta_list[1].none /\ meta_list[2].none
    /\ Len(saved) = 2 /\ saved[2].df = w_list[1]
    /\ filelist[2].rows[1].Pegelkennziffer # filelist[1].rows[1].Pegelkennziffer

(***************************************************************************)
(* Every notebook cell above, from any of its starts                       *)
(***************************************************************************)
Init == InitResolve \/ InitExtract \/ InitBayern \/ InitParse \/ InitBrandenburg \/ InitSheet \/ InitTwice \/ InitHandles
        \/ InitTail \/ InitMeta \/ InitNRW \/ InitNrwFile \/ InitSachsen

Next == NextResolve \/ NextBayern \/ NextParse \/ NextBrandenburg \/ NextTwice \/ NextHandles
        \/ NextMeta \/ NextNRW \/ NextSachsen

Spec == Init /\ [][Next]_vars

====
